---- MODULE Spec2Model ----
(***************************************************************************)
(* Model of the fog worker's results evaluation: handleResults with the    *)
(* auto-stop and auto-ramp evaluators, over the key-value store that holds *)
(* the experiment records and the ramp counters, together with the         *)
(* administrative update of a record.                                      *)
(*                                                                         *)
(* An optional value (a field that may be absent from a JSON object, a     *)
(* KV get that may return null) is a sequence of length 0 (absent) or 1.   *)
(* A decimal string is the sequence of its digits.  A probability is the   *)
(* number of wins out of SAMPLES draws.                                    *)
(***************************************************************************)
EXTENDS Integers, Sequences, FiniteSets, TLC

\* ---------------------------------------------------------------- bounds

\* The clock takes the values 0..MaxTime.
MaxTime == 1

\* A ramp counter is not incremented past MaxCounter.
MaxCounter == 4

\* The evaluations counted.
MaxEvaluations == 14

\* ------------------------------------------------------------- constants

SAMPLES == 10000

DefaultMinSamples == 100

FLAG_CONSECUTIVE_REQUIRED == 3

\* Thresholds, as wins out of SAMPLES: 0.95, 0.99 and 0.01.
FLAG_RAMP_THRESHOLD == 9500

StopWinThreshold == 9900

StopLoseThreshold == 100

RAMP_SCHEDULE == <<10, 25, 50, 75, 100>>

\* ------------------------------------------------------- optional values

None == <<>>

Some(x) == <<x>>

\* a ?? d
Coalesce(opt, d) == IF opt = None THEN d ELSE opt[1]

\* ------------------------------------------------------- decimal strings

RECURSIVE JsString(_)
\* String(n) for an integer n >= 0
JsString(n) == IF n < 10 THEN <<n>> ELSE Append(JsString(n \div 10), n % 10)

RECURSIVE JsNumber(_)
\* Number(s) for a string of decimal digits (Number("") is 0)
JsNumber(s) ==
  IF s = <<>> THEN 0 ELSE 10 * JsNumber(SubSeq(s, 1, Len(s) - 1)) + s[Len(s)]

\* raw ? ... : ... for raw a string or null: null and "" are falsy
Truthy(raw) == raw # None /\ raw[1] # <<>>

\* ------------------------------------------------------------ identifiers

\* "e1" and "e2" match SAFE_ID; "E!" does not.
Ids == {"e1", "e2", "E!"}

SAFE_ID(id) == id \in {"e1", "e2"}

Requests == {"r1", "r2"}

Statuses == {"active", "paused", "completed"}

\* ------------------------------------------------------------- the store

VARIABLES
  kvExp,   \* FOG_KV at experiment:<id>: None or Some(record)
  kvCtr,   \* FOG_KV at autostop:<id>: None or Some(decimal string)
  clock    \* what new Date() returns

\* ------------------------------------------------ a results request

VARIABLES
  pc,            \* where each request's handler stands
  expId,         \* the experimentId of the request's path
  stats,         \* the per-variant aggregate: variant key -> counts
  experiment,    \* the record the handler read: None or Some(record)
  probabilities, \* multiVariantProbabilities' result, aligned with variantKeys
  consecutive,   \* evaluateFlagRamp's incremented counter
  updated,       \* the record an evaluator is writing
  finalExp,      \* the record the response is built from
  resp,          \* the response: None until the handler returns
  putCalls,      \* the FOG_KV.put calls of the request that took effect, in order
  before         \* the store at the request's id when the request arrived

\* ------------------------------------------------------------- observation

VARIABLES
  streak,      \* per id: the latest evaluations (at most FLAG_CONSECUTIVE_REQUIRED)
               \* that each saw a hit on the active flag, with no other evaluation
               \* or update of the id completing between them
  followed,    \* what the run keeps of its history: "hits", "evaluations"
  fresh,       \* per request: it arrived after the latest increase of the
               \* stored trafficPercent of e1
  hitsSince,   \* the evaluations that arrived after that increase and saw a
               \* hit (saturating at FLAG_CONSECUTIVE_REQUIRED)
  evaluations, \* the evaluations that have returned (saturating)
  qualifying   \* per id: the number of evaluations that saw a hit on the active
               \* flag since the counter was last reset (saturating)

\* ------------------------------- an update request (PUT/PATCH of a record)

VARIABLES
  adminPc,      \* where the update handler stands
  adminId,      \* the id of its path
  adminUpdated, \* the merged record it is writing
  adminResp     \* the status of its response, 0 until it returns

\* ------------------------------------------------------------- assignment

VARIABLES
  kvIndex,      \* FOG_KV at experiments:index: the list of ids
  visitorId,    \* the visitor whose requests the run follows: a string, as
                \* the sequence of its character codes
  bucketCall,   \* the arguments of the latest call of bucket: None or Some
  bucketResult, \* what the worker's and the SDK's copies returned for them
  initResp,     \* the latest /init response, with the records it was built from
  prevInit,     \* the /init response before the latest
  tracked,      \* the latest event /track wrote, with the record it read
  trackResp     \* the status of the latest /track response, 0 before any

\* ------------------------------------------------------------- estimation

VARIABLES
  statsCall,   \* the argument of the latest call of multiVariantProbabilities:
               \* None or Some
  statsResult  \* what it returned, with the calls of bayesianProbability it made

\* ---------------------------------------------------- the SDK in a page

VARIABLES
  hasWindow,         \* whether the SDK runs where window is defined
  sdkStatus,         \* _status
  sdkAssignments,    \* _assignments: experiment id -> variant index
  teardownDataLayer, \* _teardownDataLayer: None, or Some of the push function
                     \* its closure restores
  dataLayerPush,     \* window.dataLayer.push: the number of the SDK's
                     \* interceptors an item passes before the original push
  initCalls,         \* the calls of init awaiting their fetch, each by its
                     \* autoRevenue
  received,          \* the assignments of the latest response init read
  variantCall,       \* the latest call of getVariant: None or Some
  pushed             \* the latest dataLayer.push: None or Some

\* -------------------------------------------------------- the daily salt

VARIABLES
  day,          \* the UTC day of new Date()
  kvSalt,       \* FOG_KV at salt:<day>: None or Some(salt)
  cached,       \* per isolate, the module's cached: None or Some([date, salt])
  saltPc,       \* where each call of getSalt stands
  saltToday,    \* its today
  saltIsolate,  \* the isolate it runs in
  saltLocal,    \* its salt
  returnedOn,   \* per day, the salts the calls with that today have returned
  schedPc,      \* where handleScheduled stands
  schedToday,   \* its today
  schedLocal    \* the salt it generated

\* ------------------------- concurrent POST and DELETE of /api/experiments

VARIABLES
  crudPc,   \* where each request stands
  crudOp,   \* its method
  crudId,   \* the id it creates or deletes
  crudIds,  \* its ids, what getIndex returned to it
  issued    \* the ids crypto.randomUUID() has returned

admin == <<adminPc, adminId, adminUpdated, adminResp>>

salts == <<day, kvSalt, cached, saltPc, saltToday, saltIsolate, saltLocal, returnedOn,
           schedPc, schedToday, schedLocal>>

crud == <<crudPc, crudOp, crudId, crudIds, issued>>

sdk == <<hasWindow, sdkStatus, sdkAssignments, teardownDataLayer, dataLayerPush,
         initCalls, received, variantCall, pushed>>

assign == <<kvIndex, visitorId, bucketCall, bucketResult, initResp, prevInit, tracked, trackResp>>

estimate == <<statsCall, statsResult>>

kv == <<kvExp, kvCtr>>

locals == <<expId, stats, experiment, probabilities, consecutive, updated, finalExp>>

request == <<pc, locals, resp, putCalls, before>>

history == <<followed, fresh, hitsSince, evaluations>>

observer == <<streak, qualifying, history>>

vars == <<kv, clock, request, admin, observer, assign, estimate, sdk, salts, crud>>

\* -------------------------------------------------- the aggregation rows

\* Object.keys(stats).sort((a, b) => Number(a) - Number(b))
RECURSIVE SortKeys(_)
SortKeys(K) ==
  IF K = {} THEN <<>>
  ELSE LET m == CHOOSE k \in K : \A j \in K : k <= j
       IN  <<m>> \o SortKeys(K \ {m})

VariantKeys(st) == SortKeys(DOMAIN st)

RECURSIVE SumCounts(_)
\* the sum of Number(row.count) over the rows of R
SumCounts(R) ==
  IF R = {} THEN 0
  ELSE LET r == CHOOSE x \in R : TRUE IN r.count + SumCounts(R \ {r})

RECURSIVE SumRevenue(_)
\* the sum of Number(row.total_revenue) over the rows of R
SumRevenue(R) ==
  IF R = {} THEN 0
  ELSE LET r == CHOOSE x \in R : TRUE IN r.total_revenue + SumRevenue(R \ {r})

\* The per-variant aggregate of the count rows and the revenue rows: a variant
\* has an entry iff some row names it.
Aggregate(rows, revenueRows) ==
  [v \in {r.variant : r \in rows \cup revenueRows} |->
     [impressions |->
        SumCounts({r \in rows : r.variant = v /\ r.eventType = "impression"}),
      conversions |->
        SumCounts({r \in rows : r.variant = v /\ r.eventType = "conversion"}),
      totalRevenue |->
        SumRevenue({r \in revenueRows : r.variant = v})]]

\* ------------------------------------------------ the probability estimator

\* bayesianProbability is a Monte Carlo estimate: the number of wins among
\* SAMPLES paired draws made with Math.random, over SAMPLES.  Which count of
\* wins comes out is the estimator's randomness, an input of the model: every
\* count is a possible outcome for every input.
BayesianProbability(cc, ct, tc, tt, wins) == wins

\* multiVariantProbabilities(variants), where draws[i] is the outcome of the
\* estimate made for index i (1-based here): index 0 of the code is null.
MultiVariantProbabilities(variants, draws) ==
  IF Len(variants) = 0 THEN <<>>
  ELSE LET control == variants[1]
       IN  [i \in 1..Len(variants) |->
              IF i = 1 THEN None
              ELSE Some(BayesianProbability(control.conversions, control.total,
                                            variants[i].conversions, variants[i].total,
                                            draws[i]))]

\* Math.max(a, b)
Max(a, b) == IF a > b THEN a ELSE b

\* Math.min(a, b)
Min(a, b) == IF a < b THEN a ELSE b

\* The counts of an arm as they are.
Unclamped(conversions, total) == [conversions |-> conversions, total |-> total]

\* Math.max(0, Math.min(conversions, total)) and Math.max(0, total)
Clamped(conversions, total) ==
  [conversions |-> Max(0, Min(conversions, total)), total |-> Max(0, total)]

\* The alpha and the beta an arm is sampled with: c + 1 and t - c + 1 of its
\* clamped counts.
BetaParameters(conversions, total) ==
  LET arm == Clamped(conversions, total)
  IN  [alpha |-> arm.conversions + 1, beta |-> arm.total - arm.conversions + 1]

\* The paired draws of one estimate: the pair i (from 0) has b > a iff
\* i % every < first.
Beats(pattern, i) == i % pattern.every < pattern.first

\* The loop run for i = 0 .. SAMPLES.
WinsInclusive(pattern) == Cardinality({i \in 0..SAMPLES : Beats(pattern, i)})

\* for (let i = 0; i < SAMPLES; i++) { ...; if (b > a) wins++; }
Wins(pattern) == Cardinality({i \in 0..(SAMPLES - 1) : Beats(pattern, i)})

\* The arguments bayesianProbability is called with for index i: of the
\* variant before it and of the variant.
MultiVariantArgumentsOfNeighbours(variants) ==
  [i \in 1..Len(variants) |->
     IF i = 1 THEN None
     ELSE Some([controlConversions |-> variants[i - 1].conversions,
                controlTotal |-> variants[i - 1].total,
                treatmentConversions |-> variants[i].conversions,
                treatmentTotal |-> variants[i].total])]

\* The arguments bayesianProbability is called with for index i (1-based
\* here): none for the control.
MultiVariantArguments(variants) ==
  [i \in 1..Len(variants) |->
     IF i = 1 THEN None
     ELSE Some([controlConversions |-> variants[1].conversions,
                controlTotal |-> variants[1].total,
                treatmentConversions |-> variants[i].conversions,
                treatmentTotal |-> variants[i].total])]

\* A call of multiVariantProbabilities, the paired draws of the estimate for
\* index i being patterns[i]: what it returned, the arguments of each call of
\* bayesianProbability and the Beta parameters each call sampled with.
StatsCalled(variants, patterns) ==
  /\ statsCall = None
  /\ statsCall' = Some(variants)
  /\ LET arguments == MultiVariantArguments(variants)
     IN  statsResult' =
           Some([probabilities |->
                   MultiVariantProbabilities(variants,
                                             [i \in 1..Len(variants) |-> Wins(patterns[i])]),
                 arguments |-> arguments,
                 parameters |->
                   [i \in 1..Len(variants) |->
                      IF arguments[i] = None THEN None
                      ELSE Some([control |->
                                   BetaParameters(arguments[i][1].controlConversions,
                                                  arguments[i][1].controlTotal),
                                 treatment |->
                                   BetaParameters(arguments[i][1].treatmentConversions,
                                                  arguments[i][1].treatmentTotal)])]])
  /\ UNCHANGED <<kv, clock, request, admin, observer, assign, sdk, salts, crud>>

\* The call has returned and its result is used up.
StatsReturned ==
  /\ statsCall # None
  /\ statsCall' = None
  /\ statsResult' = None
  /\ UNCHANGED <<kv, clock, request, admin, observer, assign, sdk, salts, crud>>

\* variantKeys.map((v) => ({conversions: stats[v].conversions, total: stats[v].impressions}))
VariantDataForStats(st) ==
  LET keys == VariantKeys(st)
  IN  [i \in 1..Len(keys) |->
         [conversions |-> st[keys[i]].conversions, total |-> st[keys[i]].impressions]]

\* ------------------------------------------------------ experiment records

\* The Experiment a POST creates (name given, everything else defaulted), with
\* the optional fields a later PUT/PATCH merged into it.
Experiment(id, variants, trafficPercent, type, autoStop, minSamples) ==
  [id |-> id, name |-> "exp", variants |-> variants,
   trafficPercent |-> trafficPercent, status |-> "active", type |-> type,
   createdAt |-> 0, updatedAt |-> 0, winner |-> None, completedAt |-> None,
   minSamplesPerVariant |-> minSamples, autoStop |-> autoStop]

\* `variant ${k}`
FallbackName(k) ==
  CASE k = -1 -> "variant -1"
    [] k = 0 -> "variant 0"
    [] k = 1 -> "variant 1"
    [] k = 2 -> "variant 2"
    [] OTHER -> "variant ?"

\* expVariantNames[Number(k)] ?? `variant ${k}`
VariantName(names, k) ==
  IF k >= 0 /\ k < Len(names) THEN names[k + 1] ELSE FallbackName(k)

\* ------------------------------------------------- evaluateExperimentStop

\* The loop deciding on the last position that crosses a threshold.
StopLoopLastDeciding(i, variantKeys, probs, expVariantNames) ==
  LET deciding == {j \in (i + 1)..Len(variantKeys) :
                     /\ probs[j] # None
                     /\ probs[j][1] > StopWinThreshold \/ probs[j][1] < StopLoseThreshold}
  IN  IF deciding = {} THEN None
      ELSE LET j == CHOOSE d \in deciding : \A e \in deciding : e <= d
           IN  IF probs[j][1] > StopWinThreshold
               THEN Some(VariantName(expVariantNames, variantKeys[j]))
               ELSE Some(VariantName(expVariantNames, variantKeys[1]))

RECURSIVE StopLoopInclusive(_, _, _, _)
\* The loop with the thresholds taken as >= and <=.
StopLoopInclusive(i, variantKeys, probs, expVariantNames) ==
  IF i >= Len(variantKeys) THEN None
  ELSE LET prob == probs[i + 1]
       IN  IF prob = None THEN StopLoopInclusive(i + 1, variantKeys, probs, expVariantNames)
           ELSE IF prob[1] >= StopWinThreshold
                THEN Some(VariantName(expVariantNames, variantKeys[i + 1]))
           ELSE IF prob[1] <= StopLoseThreshold
                THEN Some(VariantName(expVariantNames, variantKeys[1]))
           ELSE StopLoopInclusive(i + 1, variantKeys, probs, expVariantNames)

RECURSIVE StopLoop(_, _, _, _)
\* The loop over the treatment variants from position i (0-based) on: the
\* winner of the first position that decides, None if none does.
StopLoop(i, variantKeys, probs, expVariantNames) ==
  IF i >= Len(variantKeys) THEN None
  ELSE LET prob == probs[i + 1]
       IN  IF prob = None THEN StopLoop(i + 1, variantKeys, probs, expVariantNames)
           ELSE IF prob[1] > StopWinThreshold
                THEN Some(VariantName(expVariantNames, variantKeys[i + 1]))
           ELSE IF prob[1] < StopLoseThreshold
                THEN Some(VariantName(expVariantNames, variantKeys[1]))
           ELSE StopLoop(i + 1, variantKeys, probs, expVariantNames)

\* variantKeys.every((v) => stats[v].impressions >= minSamples)
AllHaveMinSamples(exp, variantKeys, st) ==
  LET minSamples == Coalesce(exp.minSamplesPerVariant, DefaultMinSamples)
  IN  \A i \in 1..Len(variantKeys) : st[variantKeys[i]].impressions >= minSamples

\* evaluateExperimentStop up to its put: the winner it declares, None if it
\* returns null.
StopWinner(exp, variantKeys, st, probs, expVariantNames) ==
  IF ~AllHaveMinSamples(exp, variantKeys, st) THEN None
  ELSE StopLoop(1, variantKeys, probs, expVariantNames)

\* completedAt left out of the completed record.
StoppedRecordWithoutCompletedAt(exp, winner, now) ==
  [exp EXCEPT !.status = "completed", !.winner = Some(winner), !.updatedAt = now]

\* {...experiment, status: "completed", winner, completedAt: now, updatedAt: now}
StoppedRecord(exp, winner, now) ==
  [exp EXCEPT !.status = "completed", !.winner = Some(winner),
              !.completedAt = Some(now), !.updatedAt = now]

\* ------------------------------------------------------- evaluateFlagRamp

\* The comparison with the threshold taken as >=.
RampObservationInclusive(probs) ==
  IF Len(probs) < 2 THEN "miss"
  ELSE IF probs[2] = None THEN "null"
  ELSE IF probs[2][1] >= FLAG_RAMP_THRESHOLD THEN "hit"
  ELSE "miss"

\* What evaluateFlagRamp does with probabilities[1]: "null" (return null),
\* "hit" (prob > FLAG_RAMP_THRESHOLD) or "miss" (the else branch).  With fewer
\* than two entries probabilities[1] is undefined, which is not === null and
\* is not > 0.95.
RampObservation(probs) ==
  IF Len(probs) < 2 THEN "miss"
  ELSE IF probs[2] = None THEN "null"
  ELSE IF probs[2][1] > FLAG_RAMP_THRESHOLD THEN "hit"
  ELSE "miss"

\* The stored counter ignored.
IncrementedFromNothing(raw) == 1

\* raw ? Number(raw) + 1 : 1
Incremented(raw) == IF Truthy(raw) THEN JsNumber(raw[1]) + 1 ELSE 1

RECURSIVE FindStepFromCurrent(_, _)
\* The search taking a step equal to the current traffic.
FindStepFromCurrent(i, currentTraffic) ==
  IF i > Len(RAMP_SCHEDULE) THEN None
  ELSE IF RAMP_SCHEDULE[i] >= currentTraffic THEN Some(RAMP_SCHEDULE[i])
  ELSE FindStepFromCurrent(i + 1, currentTraffic)

\* The search starting over from the first step when none is left.
NextStepWrapping(currentTraffic) ==
  LET above == {j \in 1..Len(RAMP_SCHEDULE) : RAMP_SCHEDULE[j] > currentTraffic}
  IN  IF above = {} THEN Some(RAMP_SCHEDULE[1])
      ELSE Some(RAMP_SCHEDULE[CHOOSE j \in above : \A k \in above : j <= k])

RECURSIVE FindStep(_, _)
\* RAMP_SCHEDULE.find((step) => step > currentTraffic), from position i on:
\* None for undefined
FindStep(i, currentTraffic) ==
  IF i > Len(RAMP_SCHEDULE) THEN None
  ELSE IF RAMP_SCHEDULE[i] > currentTraffic THEN Some(RAMP_SCHEDULE[i])
  ELSE FindStep(i + 1, currentTraffic)

NextStep(currentTraffic) == FindStep(1, currentTraffic)

\* {...experiment, trafficPercent: nextStep, updatedAt: now}
RampedRecord(exp, nextStep, now) ==
  [exp EXCEPT !.trafficPercent = nextStep, !.updatedAt = now]

\* ------------------------------------------------------------ handleResults

\* An entry of putCalls: the key written and the value.
PutOfExperiment(id, rec) == [key |-> "experiment", id |-> id, exp |-> Some(rec), ctr |-> None]

PutOfCounter(id, str) == [key |-> "autostop", id |-> id, exp |-> None, ctr |-> Some(str)]

\* a ratio num/den, 0 when the code's guard den > 0 fails
Ratio(num, den) == IF den > 0 THEN <<num, den>> ELSE <<0, 1>>

\* The variants array of the response.
ResponseVariants(st, probs, expVariantNames) ==
  LET keys == VariantKeys(st)
  IN  [i \in 1..Len(keys) |->
         [index |-> keys[i],
          name |-> VariantName(expVariantNames, keys[i]),
          impressions |-> st[keys[i]].impressions,
          conversions |-> st[keys[i]].conversions,
          conversionRate |-> Ratio(st[keys[i]].conversions, st[keys[i]].impressions),
          probability |-> probs[i],
          totalRevenue |-> st[keys[i]].totalRevenue,
          revenuePerVisitor |-> Ratio(st[keys[i]].totalRevenue, st[keys[i]].impressions)]]

ErrorResponse(code, msg) ==
  [status |-> code, error |-> msg, experimentId |-> "", variants |-> <<>>,
   expStatus |-> None, winner |-> None, completedAt |-> None]

\* The response with status "active" when finalExp is null.
OkResponseActiveByDefault(id, variants, final) ==
  [status |-> 200, error |-> "", experimentId |-> id, variants |-> variants,
   expStatus |-> IF final = None THEN Some("active") ELSE Some(final[1].status),
   winner |-> IF final = None THEN None ELSE final[1].winner,
   completedAt |-> IF final = None THEN None ELSE final[1].completedAt]

\* finalExp?.status, finalExp?.winner, finalExp?.completedAt: absent when
\* finalExp is null or the field is.
OkResponse(id, variants, final) ==
  [status |-> 200, error |-> "", experimentId |-> id, variants |-> variants,
   expStatus |-> IF final = None THEN None ELSE Some(final[1].status),
   winner |-> IF final = None THEN None ELSE final[1].winner,
   completedAt |-> IF final = None THEN None ELSE final[1].completedAt]

\* the last n entries of the sequence s
LastOf(s, n) == IF Len(s) <= n THEN s ELSE SubSeq(s, Len(s) - n + 1, Len(s))

\* the store at id
Snapshot(id) == [exp |-> kvExp[id], ctr |-> kvCtr[id]]

NoSnapshot == [exp |-> None, ctr |-> None]

\* q + 1, saturating
CountUp(q) == IF q < MaxCounter + 2 THEN q + 1 ELSE q

\* The status of the record not looked at.
EvaluatorWhateverStatus(exp) ==
  IF exp = None THEN "none"
  ELSE LET expType == Coalesce(exp[1].type, "experiment")
       IN  IF expType = "experiment" /\ Coalesce(exp[1].autoStop, TRUE) THEN "stop"
           ELSE IF expType = "flag" THEN "ramp"
           ELSE "none"

\* autoStop not looked at.
EvaluatorWhateverAutoStop(exp) ==
  IF exp = None \/ exp[1].status # "active" THEN "none"
  ELSE LET expType == Coalesce(exp[1].type, "experiment")
       IN  IF expType = "experiment" THEN "stop"
           ELSE IF expType = "flag" THEN "ramp"
           ELSE "none"

\* Which evaluator handleResults calls for the record it read.
Evaluator(exp) ==
  IF exp = None \/ exp[1].status # "active" THEN "none"
  ELSE LET expType == Coalesce(exp[1].type, "experiment")
       IN  IF expType = "experiment" /\ Coalesce(exp[1].autoStop, TRUE) THEN "stop"
           ELSE IF expType = "flag" THEN "ramp"
           ELSE "none"

NoLocals(p) ==
  /\ stats' = [stats EXCEPT ![p] = <<>>]
  /\ experiment' = [experiment EXCEPT ![p] = None]
  /\ probabilities' = [probabilities EXCEPT ![p] = <<>>]
  /\ consecutive' = [consecutive EXCEPT ![p] = 0]
  /\ updated' = [updated EXCEPT ![p] = None]
  /\ finalExp' = [finalExp EXCEPT ![p] = None]

\* A request arrives with an id that fails SAFE_ID: 400, nothing is read.
ResultsInvalidId(p, id) ==
  /\ pc[p] \in {"idle", "done"}
  /\ ~SAFE_ID(id)
  /\ pc' = [pc EXCEPT ![p] = "done"]
  /\ expId' = [expId EXCEPT ![p] = id]
  /\ resp' = [resp EXCEPT ![p] = Some(ErrorResponse(400, "Invalid experiment ID"))]
  /\ putCalls' = [putCalls EXCEPT ![p] = <<>>]
  /\ before' = [before EXCEPT ![p] = NoSnapshot]
  /\ NoLocals(p)
  /\ UNCHANGED <<admin, kv, clock, assign, estimate, sdk, salts, crud, observer>>

\* A request arrives and one of the two aggregation queries fails: 502.
ResultsQueryFails(p, id) ==
  /\ pc[p] \in {"idle", "done"}
  /\ SAFE_ID(id)
  /\ pc' = [pc EXCEPT ![p] = "done"]
  /\ expId' = [expId EXCEPT ![p] = id]
  /\ resp' = [resp EXCEPT ![p] = Some(ErrorResponse(502, "Analytics Engine error"))]
  /\ putCalls' = [putCalls EXCEPT ![p] = <<>>]
  /\ before' = [before EXCEPT ![p] = NoSnapshot]
  /\ NoLocals(p)
  /\ UNCHANGED <<admin, kv, clock, assign, estimate, sdk, salts, crud, observer>>

\* A request arrives, both queries answer, and the rows are aggregated. With
\* keep the store the request started from is remembered, to be looked at.
ResultsQuery(p, id, rows, revenueRows, keep) ==
  /\ pc[p] \in {"idle", "done"}
  /\ SAFE_ID(id)
  /\ pc' = [pc EXCEPT ![p] = "get"]
  /\ expId' = [expId EXCEPT ![p] = id]
  /\ resp' = [resp EXCEPT ![p] = None]
  /\ putCalls' = [putCalls EXCEPT ![p] = <<>>]
  /\ stats' = [stats EXCEPT ![p] = Aggregate(rows, revenueRows)]
  /\ experiment' = [experiment EXCEPT ![p] = None]
  /\ probabilities' = [probabilities EXCEPT ![p] = <<>>]
  /\ consecutive' = [consecutive EXCEPT ![p] = 0]
  /\ updated' = [updated EXCEPT ![p] = None]
  /\ finalExp' = [finalExp EXCEPT ![p] = None]
  /\ before' = [before EXCEPT ![p] = IF keep THEN Snapshot(id) ELSE NoSnapshot]
  /\ fresh' = IF "hits" \in followed /\ id = "e1" THEN [fresh EXCEPT ![p] = TRUE] ELSE fresh
  /\ UNCHANGED <<admin, kv, clock, assign, estimate, sdk, salts, crud, streak, qualifying,
                 followed, hitsSince, evaluations>>

\* An evaluation of the id has completed: it extends the streak if it saw a hit
\* on the active flag, and ends it otherwise.
Observed(p, exp, probs, puts) ==
  streak' = [streak EXCEPT ![expId[p]] =
               IF Evaluator(exp) = "ramp" /\ RampObservation(probs) = "hit"
               THEN LastOf(Append(@, [before |-> before[p], puts |-> puts]),
                           FLAG_CONSECUTIVE_REQUIRED)
               ELSE <<>>]

\* One more evaluation has returned.
Counted(n) == IF "evaluations" \in followed /\ n < MaxEvaluations THEN n + 1 ELSE n

\* The handler returns: its response is response, it read the record exp,
\* estimated probs, ends with finalExp = final, and puts are the puts it made.
\* With keep the finished request stays as it is, to be looked at, until the
\* next request takes its place; without, it is gone at once.
Return(p, response, exp, probs, final, puts, keep) ==
  /\ evaluations' = Counted(evaluations)
  /\ IF keep
     THEN /\ pc' = [pc EXCEPT ![p] = "done"]
          /\ resp' = [resp EXCEPT ![p] = Some(response)]
          /\ experiment' = [experiment EXCEPT ![p] = exp]
          /\ probabilities' = [probabilities EXCEPT ![p] = probs]
          /\ finalExp' = [finalExp EXCEPT ![p] = final]
          /\ putCalls' = [putCalls EXCEPT ![p] = puts]
          /\ Observed(p, exp, probs, puts)
          /\ UNCHANGED <<expId, stats, consecutive, updated, before>>
     ELSE /\ pc' = [pc EXCEPT ![p] = "idle"]
          /\ resp' = [resp EXCEPT ![p] = None]
          /\ putCalls' = [putCalls EXCEPT ![p] = <<>>]
          /\ before' = [before EXCEPT ![p] = NoSnapshot]
          /\ NoLocals(p)
          /\ UNCHANGED <<expId, streak>>

\* The 200 response of a request that read exp, estimated probs and ends with
\* finalExp = final.
Respond(p, exp, probs, final, puts, keep) ==
  Return(p,
         OkResponse(expId[p],
                    ResponseVariants(stats[p], probs,
                                     IF exp = None THEN <<>> ELSE exp[1].variants),
                    final),
         exp, probs, final, puts, keep)

\* The record is read, the probabilities are estimated, and the evaluator the
\* record calls for runs up to its first store access; with no evaluator, or
\* one that returns null at once, the handler responds.
ResultsGetExperiment(p, draws, keep) ==
  /\ pc[p] = "get"
  /\ LET exp == kvExp[expId[p]]
         names == IF exp = None THEN <<>> ELSE exp[1].variants
         keys == VariantKeys(stats[p])
         probs == MultiVariantProbabilities(VariantDataForStats(stats[p]), draws)
         winner == IF Evaluator(exp) = "stop"
                   THEN StopWinner(exp[1], keys, stats[p], probs, names)
                   ELSE None
         seen == IF Evaluator(exp) = "ramp" THEN RampObservation(probs) ELSE "null"
         next == IF winner # None THEN "stopPut"
                 ELSE IF seen = "hit" THEN "rampGet"
                 ELSE IF seen = "miss" THEN "rampMiss"
                 ELSE "respond"
     IN  IF next = "respond"
         THEN /\ Respond(p, exp, probs, exp, putCalls[p], keep)
              /\ UNCHANGED <<qualifying, hitsSince>>
         ELSE /\ pc' = [pc EXCEPT ![p] = next]
              /\ experiment' = [experiment EXCEPT ![p] = exp]
              /\ probabilities' = [probabilities EXCEPT ![p] = probs]
              /\ finalExp' = [finalExp EXCEPT ![p] = exp]
              /\ updated' = [updated EXCEPT ![p] =
                               IF winner # None
                               THEN Some(StoppedRecord(exp[1], winner[1], clock))
                               ELSE None]
              /\ qualifying' = [qualifying EXCEPT ![expId[p]] =
                                  IF seen = "hit" THEN CountUp(@) ELSE @]
              /\ hitsSince' = IF "hits" \in followed /\ seen = "hit" /\ fresh[p]
                               THEN Min(hitsSince + 1, FLAG_CONSECUTIVE_REQUIRED)
                               ELSE hitsSince
              /\ UNCHANGED <<expId, stats, consecutive, resp, putCalls, before, streak,
                             evaluations>>
  /\ UNCHANGED <<admin, kv, clock, assign, estimate, sdk, salts, crud, followed, fresh>>

\* evaluateExperimentStop's put takes effect, the evaluator returns updated
\* and the handler responds.
StopPut(p, keep) ==
  /\ pc[p] = "stopPut"
  /\ kvExp' = [kvExp EXCEPT ![expId[p]] = updated[p]]
  /\ Respond(p, experiment[p], probabilities[p], updated[p],
             Append(putCalls[p], PutOfExperiment(expId[p], updated[p][1])), keep)
  /\ UNCHANGED <<admin, kvCtr, clock, assign, estimate, sdk, salts, crud, qualifying,
                 followed, fresh, hitsSince>>

\* evaluateFlagRamp reads the counter and increments it.
RampGetCounter(p) ==
  /\ pc[p] = "rampGet"
  /\ Incremented(kvCtr[expId[p]]) <= MaxCounter
  /\ consecutive' = [consecutive EXCEPT ![p] = Incremented(kvCtr[expId[p]])]
  /\ pc' = [pc EXCEPT ![p] = "rampPutCounter"]
  /\ UNCHANGED <<admin, kv, clock, assign, estimate, sdk, salts, crud, expId, stats, experiment, probabilities, updated,
                 finalExp, resp, putCalls, before, observer>>

\* The incremented counter is stored; at FLAG_CONSECUTIVE_REQUIRED or more the
\* next schedule step is looked up and, if there is one, the ramped record is
\* built; otherwise the evaluator returns null and the handler responds.
RampPutCounter(p, keep) ==
  /\ pc[p] = "rampPutCounter"
  /\ kvCtr' = [kvCtr EXCEPT ![expId[p]] = Some(JsString(consecutive[p]))]
  /\ LET nextStep == NextStep(experiment[p][1].trafficPercent)
         puts == Append(putCalls[p], PutOfCounter(expId[p], JsString(consecutive[p])))
     IN  IF consecutive[p] >= FLAG_CONSECUTIVE_REQUIRED /\ nextStep # None
         THEN /\ updated' = [updated EXCEPT ![p] =
                               Some(RampedRecord(experiment[p][1], nextStep[1], clock))]
              /\ pc' = [pc EXCEPT ![p] = "rampPutExperiment"]
              /\ putCalls' = [putCalls EXCEPT ![p] = puts]
              /\ UNCHANGED <<expId, stats, experiment, probabilities, consecutive,
                             finalExp, resp, before, streak, evaluations>>
         ELSE Respond(p, experiment[p], probabilities[p], experiment[p], puts, keep)
  /\ UNCHANGED <<admin, kvExp, clock, assign, estimate, sdk, salts, crud, qualifying,
                 followed, fresh, hitsSince>>

\* The record written has a larger trafficPercent than the stored one.
Increases(stored, written) ==
  /\ stored # None
  /\ written # None
  /\ written[1].trafficPercent > stored[1].trafficPercent

\* The ramped record is stored.
RampPutExperiment(p) ==
  /\ pc[p] = "rampPutExperiment"
  /\ kvExp' = [kvExp EXCEPT ![expId[p]] = updated[p]]
  /\ putCalls' = [putCalls EXCEPT ![p] = Append(@, PutOfExperiment(expId[p], updated[p][1]))]
  /\ pc' = [pc EXCEPT ![p] = "rampPutZero"]
  /\ IF "hits" \in followed /\ expId[p] = "e1" /\ Increases(kvExp["e1"], updated[p])
       THEN /\ fresh' = [q \in Requests |-> FALSE]
            /\ hitsSince' = 0
       ELSE UNCHANGED <<fresh, hitsSince>>
  /\ UNCHANGED <<admin, kvCtr, clock, assign, estimate, sdk, salts, crud, expId, stats,
                 experiment, probabilities, consecutive, updated, finalExp, resp, before,
                 streak, qualifying, followed, evaluations>>

\* The reset of the counter after a ramp left out.
RampPutZeroSkipped(p, keep) ==
  /\ pc[p] = "rampPutZero"
  /\ Respond(p, experiment[p], probabilities[p], updated[p], putCalls[p], keep)
  /\ UNCHANGED <<admin, kv, clock, assign, estimate, sdk, salts, crud, qualifying,
                 followed, fresh, hitsSince>>

\* The counter is reset after the ramp, the evaluator returns updated and the
\* handler responds.
RampPutZero(p, keep) ==
  /\ pc[p] = "rampPutZero"
  /\ kvCtr' = [kvCtr EXCEPT ![expId[p]] = Some(JsString(0))]
  /\ Respond(p, experiment[p], probabilities[p], updated[p],
             Append(putCalls[p], PutOfCounter(expId[p], JsString(0))), keep)
  /\ qualifying' = [qualifying EXCEPT ![expId[p]] = 0]
  /\ UNCHANGED <<admin, kvExp, clock, assign, estimate, sdk, salts, crud, followed, fresh,
                 hitsSince>>

\* The threshold was not met: the counter is reset, the evaluator returns null
\* and the handler responds.
RampMiss(p, keep) ==
  /\ pc[p] = "rampMiss"
  /\ kvCtr' = [kvCtr EXCEPT ![expId[p]] = Some(JsString(0))]
  /\ Respond(p, experiment[p], probabilities[p], experiment[p],
             Append(putCalls[p], PutOfCounter(expId[p], JsString(0))), keep)
  /\ qualifying' = [qualifying EXCEPT ![expId[p]] = 0]
  /\ UNCHANGED <<admin, kvExp, clock, assign, estimate, sdk, salts, crud, followed, fresh,
                 hitsSince>>

\* A put of the request does not take effect: the put throws, neither the
\* evaluators nor the handler catch, and the request ends with the runtime's 500.
PutFails(p, keep) ==
  /\ pc[p] \in {"stopPut", "rampPutCounter", "rampPutExperiment", "rampPutZero", "rampMiss"}
  /\ IF keep
     THEN /\ pc' = [pc EXCEPT ![p] = "done"]
          /\ resp' = [resp EXCEPT ![p] = Some(ErrorResponse(500, "exception"))]
          /\ streak' = [streak EXCEPT ![expId[p]] = <<>>]
          /\ evaluations' = Counted(evaluations)
          /\ UNCHANGED <<locals, putCalls, before>>
     ELSE Return(p, ErrorResponse(500, "exception"), None, <<>>, None, <<>>, FALSE)
  /\ UNCHANGED <<admin, kv, clock, assign, estimate, sdk, salts, crud, qualifying,
                 followed, fresh, hitsSince>>

\* Time passes.
Tick ==
  /\ clock < MaxTime
  /\ clock' = clock + 1
  /\ UNCHANGED <<admin, kv, request, observer, assign, estimate, sdk, salts, crud>>

\* ------------------------------------------- PUT/PATCH /api/experiments/:id

\* A request body: parsed is FALSE for a body that is not JSON; each field is
\* absent or present; a present trafficPercent is a number or not.
Body(status, trafficPercent, variants) ==
  [parsed |-> TRUE, status |-> status, trafficPercent |-> trafficPercent,
   variants |-> variants, id |-> None, createdAt |-> None]

NotJson ==
  [parsed |-> FALSE, status |-> None, trafficPercent |-> None, variants |-> None,
   id |-> None, createdAt |-> None]

\* A body with an id and a createdAt, and nothing else.
IdentityBody(id, createdAt) ==
  [Body(None, None, None) EXCEPT !.id = Some(id), !.createdAt = Some(createdAt)]

Num(n) == [isNumber |-> TRUE, val |-> n]

NotANumber == [isNumber |-> FALSE, val |-> 0]

\* The test without its lower end.
BadTrafficPercentAboveOnly(t) == ~t.isNumber \/ t.val > 100

\* typeof t !== "number" || t < 0 || t > 100
BadTrafficPercent(t) == ~t.isNumber \/ t.val < 0 \/ t.val > 100

\* {...existing, ...body}
Spread(existing, body) ==
  [existing EXCEPT
     !.status = Coalesce(body.status, @),
     !.trafficPercent = IF body.trafficPercent = None THEN @ ELSE body.trafficPercent[1].val,
     !.variants = Coalesce(body.variants, @),
     !.id = Coalesce(body.id, @),
     !.createdAt = Coalesce(body.createdAt, @)]

\* {...existing, ...body, id: existing.id, createdAt: existing.createdAt, updatedAt: now}
Merged(existing, body, now) ==
  [Spread(existing, body) EXCEPT
     !.id = existing.id, !.createdAt = existing.createdAt, !.updatedAt = now]

\* The validation without the test of body.variants.
UpdateRejectionAllowingVariants(raw, body) ==
  IF raw = None THEN 404
  ELSE IF ~body.parsed THEN 400
  ELSE IF body.trafficPercent # None /\ BadTrafficPercent(body.trafficPercent[1]) THEN 400
  ELSE 0

\* The status the update handler answers with before any put, 0 if it goes on
\* to put.
UpdateRejection(raw, body) ==
  IF raw = None THEN 404
  ELSE IF ~body.parsed THEN 400
  ELSE IF body.variants # None THEN 400
  ELSE IF body.trafficPercent # None /\ BadTrafficPercent(body.trafficPercent[1]) THEN 400
  ELSE 0

\* The update handler reads the record, parses and validates the body and
\* builds the merged record.
UpdateGet(id, body) ==
  /\ adminPc \in {"idle", "done"}
  /\ adminId' = id
  /\ LET raw == kvExp[id]
         code == UpdateRejection(raw, body)
     IN  IF code # 0
         THEN /\ adminPc' = "done"
              /\ adminResp' = code
              /\ adminUpdated' = None
         ELSE /\ adminPc' = "put"
              /\ adminResp' = 0
              /\ adminUpdated' = Some(Merged(raw[1], body, clock))
  /\ UNCHANGED <<kv, clock, assign, estimate, sdk, salts, crud, request, observer>>

\* The merged record is stored and returned.
UpdatePut ==
  /\ adminPc = "put"
  /\ kvExp' = [kvExp EXCEPT ![adminId] = adminUpdated]
  /\ adminPc' = "done"
  /\ adminResp' = 200
  /\ adminUpdated' = None
  /\ streak' = [streak EXCEPT ![adminId] = <<>>]
  /\ UNCHANGED <<kvCtr, clock, assign, estimate, sdk, salts, crud, request, adminId,
                 qualifying, history>>

\* ------------------------------------------------------------ lib/hash.ts

\* A 32-bit value is the pair <<high 16 bits, low 16 bits>>.

RECURSIVE Xor(_, _)
\* a ^ b for a, b >= 0
Xor(a, b) ==
  IF a = 0 THEN b
  ELSE IF b = 0 THEN a
  ELSE 2 * Xor(a \div 2, b \div 2) + ((a + b) % 2)

\* hash ^ code for a character code (a UTF-16 code unit, below 2^16)
XorCode(hash, code) == <<hash[1], Xor(hash[2], code)>>

\* Math.imul(a, b): the low 32 bits of the product
Imul(a, b) ==
  LET low == a[2] * b[2]
      high == a[1] * b[2] + a[2] * b[1] + low \div 65536
  IN  <<high % 65536, low % 65536>>

\* (hash >>> 0) % m: the 32 bits read as an unsigned integer, modulo m
UnsignedMod(hash, m) == ((hash[1] % m) * (65536 % m) + hash[2]) % m

\* 0x811c9dc5
OffsetBasis == <<33052, 40389>>

\* 0x01000193
FnvPrime == <<256, 403>>

\* The value fnv1a returns is a number of HashResolution-ths.
HashResolution == 10000

RECURSIVE Fnv1aLoopMultiplyFirst(_, _, _)
\* The loop multiplying before it xors.
Fnv1aLoopMultiplyFirst(str, i, hash) ==
  IF i > Len(str) THEN hash
  ELSE Fnv1aLoopMultiplyFirst(str, i + 1, XorCode(Imul(hash, FnvPrime), str[i]))

RECURSIVE Fnv1aLoop(_, _, _)
\* the loop of fnv1a from position i (1-based) on (hash is compared in the
\* test so that each round's value is computed before the next round starts)
Fnv1aLoop(str, i, hash) ==
  IF i > Len(str) \/ hash = <<>> THEN hash
  ELSE Fnv1aLoop(str, i + 1, Imul(XorCode(hash, str[i]), FnvPrime))

\* The SDK's fnv1a with the first character left out.
sdk_fnv1aShort(str) ==
  UnsignedMod(Fnv1aLoop(str, 2, OffsetBasis), HashResolution)

\* fnv1a(str) of the worker, as the numerator k of k / 10000
fnv1a(str) == UnsignedMod(Fnv1aLoop(str, 1, OffsetBasis), HashResolution)

\* fnv1a(str) of the SDK, as the numerator k of k / 10000
sdk_fnv1a(str) == UnsignedMod(Fnv1aLoop(str, 1, OffsetBasis), HashResolution)

\* The values of trafficPercent the model buckets with.
TrafficPercents == {0, 10, 25, 30, 50, 75, 100}

\* The triples <<k, trafficPercent, variantCount>>, among the trafficPercent
\* of TrafficPercents and up to 5 variants, for which the double
\* (k / 10000) / (trafficPercent / 100) * variantCount is below the whole
\* number the exact quotient is, so that Math.floor gives one less.
FloorBelowExact ==
  {<<750, 10, 4>>, <<200, 10, 5>>, <<400, 10, 5>>, <<800, 10, 5>>,
   <<1500, 75, 5>>, <<3000, 75, 5>>, <<6000, 75, 5>>}

\* Math.floor(n / (trafficPercent / 100) * variantCount) for n = k / 10000
FloorScaled(k, trafficPercent, variantCount) ==
  LET exact == (k * variantCount) \div (100 * trafficPercent)
  IN  IF <<k, trafficPercent, variantCount>> \in FloorBelowExact THEN exact - 1
      ELSE exact

\* n < trafficPercent / 100 for n = k / 10000: both sides are the doubles
\* nearest to the exact quotients, which compare as the quotients do
BelowTraffic(k, trafficPercent) == k < 100 * trafficPercent

\* The bucket that rescales whatever the type.
BucketAlwaysRescaling(visitor, experimentId, variantCount, trafficPercent, type) ==
  LET k == fnv1a(visitor \o experimentId)
  IN  IF ~BelowTraffic(k, trafficPercent) THEN -1
      ELSE Min(FloorScaled(k, trafficPercent, variantCount), variantCount - 1)

\* The bucket that excludes at the threshold trafficPercent / 100 only above it.
BucketExcludingAbove(visitor, experimentId, variantCount, trafficPercent, type) ==
  LET k == fnv1a(visitor \o experimentId)
  IN  IF Coalesce(type, "experiment") = "flag"
      THEN IF BelowTraffic(k, trafficPercent) THEN 1 ELSE 0
      ELSE IF k > 100 * trafficPercent \/ trafficPercent = 0 THEN -1
      ELSE Min(FloorScaled(k, trafficPercent, variantCount), variantCount - 1)

\* The bucket that excludes in flag mode too.
BucketExcludingFlags(visitor, experimentId, variantCount, trafficPercent, type) ==
  LET k == fnv1a(visitor \o experimentId)
  IN  IF Coalesce(type, "experiment") = "flag"
      THEN IF BelowTraffic(k, trafficPercent) THEN 1 ELSE -1
      ELSE IF ~BelowTraffic(k, trafficPercent) THEN -1
      ELSE Min(FloorScaled(k, trafficPercent, variantCount), variantCount - 1)

\* The bucket that does not rescale.
BucketUnscaled(visitor, experimentId, variantCount, trafficPercent, type) ==
  LET k == fnv1a(visitor \o experimentId)
  IN  IF Coalesce(type, "experiment") = "flag"
      THEN IF BelowTraffic(k, trafficPercent) THEN 1 ELSE 0
      ELSE IF ~BelowTraffic(k, trafficPercent) THEN -1
      ELSE Min((k * variantCount) \div HashResolution, variantCount - 1)

\* bucket(visitorId, experimentId, variantCount, trafficPercent, type) of the
\* worker; type is None when the caller leaves it out.
bucket(visitor, experimentId, variantCount, trafficPercent, type) ==
  LET n == fnv1a(visitor \o experimentId)
  IN  IF Coalesce(type, "experiment") = "flag"
      THEN IF BelowTraffic(n, trafficPercent) THEN 1 ELSE 0
      ELSE IF ~BelowTraffic(n, trafficPercent) THEN -1
      ELSE Min(FloorScaled(n, trafficPercent, variantCount), variantCount - 1)

\* bucket of the SDK
sdk_bucket(visitor, experimentId, variantCount, trafficPercent, type) ==
  LET n == sdk_fnv1a(visitor \o experimentId)
  IN  IF Coalesce(type, "experiment") = "flag"
      THEN IF BelowTraffic(n, trafficPercent) THEN 1 ELSE 0
      ELSE IF ~BelowTraffic(n, trafficPercent) THEN -1
      ELSE Min(FloorScaled(n, trafficPercent, variantCount), variantCount - 1)

\* The character codes of an id.
CharCodes(id) ==
  CASE id = "e1" -> <<101, 49>>
    [] id = "e2" -> <<101, 50>>
    [] id = "E!" -> <<69, 33>>
    [] OTHER -> <<>>

\* A call of bucket, by the worker and by the SDK, for the run's visitor.
BucketCalled(experimentId, variantCount, trafficPercent, type) ==
  /\ bucketCall = None
  /\ bucketCall' = Some([visitorId |-> visitorId, experimentId |-> experimentId,
                         variantCount |-> variantCount,
                         trafficPercent |-> trafficPercent, type |-> type])
  /\ bucketResult' =
       Some([hash |-> fnv1a(visitorId \o CharCodes(experimentId)),
             sdkHash |-> sdk_fnv1a(visitorId \o CharCodes(experimentId)),
             worker |-> bucket(visitorId, CharCodes(experimentId), variantCount,
                               trafficPercent, type),
             sdk |-> sdk_bucket(visitorId, CharCodes(experimentId), variantCount,
                                trafficPercent, type)])
  /\ UNCHANGED <<salts, crud, sdk, estimate, kv, clock, request, admin, observer, kvIndex, visitorId,
                 initResp, prevInit, tracked, trackResp>>

\* The call has returned and its result is used up.
BucketReturned ==
  /\ bucketCall # None
  /\ bucketCall' = None
  /\ bucketResult' = None
  /\ UNCHANGED <<salts, crud, sdk, estimate, kv, clock, request, admin, observer, kvIndex, visitorId,
                 initResp, prevInit, tracked, trackResp>>

\* ------------------------------------------------- GET /init, POST /track

\* env.FOG_KV.get(`experiment:${id}`), for any id
KvGet(id) == IF id \in DOMAIN kvExp THEN kvExp[id] ELSE None

\* handleInit's and handleTrack's call of bucket: the record's id, the number
\* of its variants and its trafficPercent, and no type argument.
AssignedVariant(visitor, exp) ==
  bucket(visitor, CharCodes(exp.id), Len(exp.variants), exp.trafficPercent, None)

\* The filter leaving out only the paused records.
ServedUnlessPaused(exp) == exp.status # "paused"

\* if (exp.status === "active") experiments.push(exp)
ServedStatus(exp) == exp.status = "active"

\* handleInit: the visitor is the visitorId parameter of the URL, or the
\* generated id when there is none; the index and the records of its ids are
\* read; each active record is bucketed, and the assignments are the results
\* that are not negative.
HandleInit(param, generated) ==
  LET visitor == Coalesce(param, generated)
      ids == {kvIndex[i] : i \in DOMAIN kvIndex}
      read == [id \in ids |-> KvGet(id)]
      experiments == {id \in ids : read[id] # None /\ ServedStatus(read[id][1])}
      assigned == {id \in experiments : AssignedVariant(visitor, read[id][1]) >= 0}
  IN  /\ prevInit' = initResp
      /\ initResp' =
           Some([visitorId |-> visitor,
                 assignments |-> [id \in assigned |-> AssignedVariant(visitor, read[id][1])],
                 read |-> read])
      /\ UNCHANGED <<salts, crud, sdk, estimate, kv, clock, request, admin, observer, kvIndex, visitorId,
                     bucketCall, bucketResult, tracked, trackResp>>

\* A /track body: parsed is FALSE for a body that is not JSON; each field is
\* absent or present.
TrackBody(visitor, experimentId, event, variantIndex) ==
  [parsed |-> TRUE, visitorId |-> visitor, experimentId |-> experimentId,
   event |-> event, variantIndex |-> variantIndex]

TrackNotJson ==
  [parsed |-> FALSE, visitorId |-> None, experimentId |-> None, event |-> None,
   variantIndex |-> None]

\* !s for an optional string
Falsy(opt) == opt = None \/ opt[1] = ""

\* !s for an optional string given by its character codes
FalsyCodes(opt) == opt = None \/ opt[1] = <<>>

\* writeEvent(env, {visitorId, variantIndex, ...body}): the body's variantIndex
\* replacing the handler's.
WrittenEventBodyLast(body, visitor, variantIndex, raw) ==
  [experimentId |-> body.experimentId,
   variantIndex |-> Coalesce(body.variantIndex, variantIndex),
   event |-> body.event[1], visitorId |-> visitor, read |-> raw,
   supplied |-> body.variantIndex]

\* writeEvent(env, {...body, visitorId, variantIndex}): the data point, with
\* the record the handler read and the variantIndex the body supplied.
WrittenEvent(body, visitor, variantIndex, raw) ==
  [experimentId |-> body.experimentId, variantIndex |-> variantIndex,
   event |-> body.event[1], visitorId |-> visitor, read |-> raw,
   supplied |-> body.variantIndex]

\* The status handleTrack answers with before it writes, 0 if it goes on.
TrackRejection(body) ==
  IF ~body.parsed THEN 400
  ELSE IF Falsy(body.event) THEN 400
  ELSE IF body.event[1] = "pageview" THEN 0
  ELSE IF FalsyCodes(body.visitorId) \/ Falsy(body.experimentId) THEN 400
  ELSE IF KvGet(body.experimentId[1]) = None THEN 404
  ELSE 0

\* A handler that counts the event in the store as well.
HandleTrackCounting(body, bot, generated) ==
  /\ trackResp' = 204
  /\ kvCtr' = [kvCtr EXCEPT !["e1"] = Some(JsString(1))]
  /\ UNCHANGED <<salts, crud, sdk, estimate, kvExp, clock, request, admin, observer, kvIndex, visitorId,
                 bucketCall, bucketResult, initResp, prevInit, tracked>>

\* handleTrack: a pageview is written with variantIndex 0 for the generated
\* visitor id; any other event with the index bucket gives for the body's
\* visitor and the record read; a bot's event is not written.
HandleTrack(body, bot, generated) ==
  LET code == TrackRejection(body)
  IN  /\ IF code # 0
         THEN /\ trackResp' = code
              /\ UNCHANGED tracked
         ELSE /\ trackResp' = 204
              /\ IF bot THEN UNCHANGED tracked
                 ELSE IF body.event[1] = "pageview"
                 THEN tracked' = Some(WrittenEvent(body, Some(generated), 0, None))
                 ELSE LET raw == KvGet(body.experimentId[1])
                      IN  tracked' =
                            Some(WrittenEvent(body, body.visitorId,
                                              AssignedVariant(body.visitorId[1], raw[1]),
                                              raw))
      /\ UNCHANGED <<salts, crud, sdk, estimate, kv, clock, request, admin, observer, kvIndex, visitorId,
                     bucketCall, bucketResult, initResp, prevInit>>

\* ------------------------------- POST /api/experiments, DELETE /api/experiments/:id

\* A POST body: parsed is FALSE for a body that is not JSON; each field is
\* absent or present.
CreateBody(name, variants, trafficPercent, status) ==
  [parsed |-> TRUE, name |-> name, variants |-> variants,
   trafficPercent |-> trafficPercent, status |-> status]

CreateNotJson ==
  [parsed |-> FALSE, name |-> None, variants |-> None, trafficPercent |-> None,
   status |-> None]

\* body.variants ?? ["control", "treatment"]
DefaultVariants == <<"control", "treatment">>

\* body.trafficPercent ?? 100
DefaultTrafficPercent == Num(100)

\* The status the create handler answers with before any put, 0 if it goes on
\* to put.
CreateRejection(body) ==
  IF ~body.parsed THEN 400
  ELSE IF Falsy(body.name) THEN 400
  ELSE IF Len(Coalesce(body.variants, DefaultVariants)) < 2 THEN 400
  ELSE IF BadTrafficPercent(Coalesce(body.trafficPercent, DefaultTrafficPercent)) THEN 400
  ELSE 0

\* The record a POST builds: the fields it sets, every other field absent.
Created(id, body, now) ==
  [id |-> id, name |-> body.name[1],
   variants |-> Coalesce(body.variants, DefaultVariants),
   trafficPercent |-> Coalesce(body.trafficPercent, DefaultTrafficPercent).val,
   status |-> Coalesce(body.status, "active"), type |-> None,
   createdAt |-> now, updatedAt |-> now, winner |-> None, completedAt |-> None,
   minSamplesPerVariant |-> None, autoStop |-> None]

\* The create handler validates the body and puts the record under a new id
\* (crypto.randomUUID(): an id neither stored nor indexed).
CreatePut(id, body) ==
  /\ adminPc \in {"idle", "done"}
  /\ kvExp[id] = None
  /\ \A i \in DOMAIN kvIndex : kvIndex[i] # id
  /\ adminId' = id
  /\ adminUpdated' = None
  /\ LET code == CreateRejection(body)
     IN  IF code # 0
         THEN /\ adminPc' = "done"
              /\ adminResp' = code
              /\ UNCHANGED kvExp
         ELSE /\ adminPc' = "index"
              /\ adminResp' = 0
              /\ kvExp' = [kvExp EXCEPT ![id] = Some(Created(id, body, clock))]
  /\ UNCHANGED <<kvCtr, clock, assign, estimate, sdk, salts, crud, request, observer>>

\* The create handler reads the index, puts it with the new id appended and
\* answers 201.
CreateIndex ==
  /\ adminPc = "index"
  /\ kvIndex' = Append(kvIndex, adminId)
  /\ adminPc' = "done"
  /\ adminResp' = 201
  /\ UNCHANGED <<salts, crud, sdk, estimate, kv, clock, request, observer, adminId, adminUpdated, visitorId,
                 bucketCall, bucketResult, initResp, prevInit, tracked, trackResp>>

\* The delete handler deletes the record at id.
DeleteRecord(id) ==
  /\ adminPc \in {"idle", "done"}
  /\ adminId' = id
  /\ adminUpdated' = None
  /\ adminPc' = "unindex"
  /\ adminResp' = 0
  /\ kvExp' = [kvExp EXCEPT ![id] = None]
  /\ streak' = [streak EXCEPT ![id] = <<>>]
  /\ UNCHANGED <<kvCtr, clock, assign, estimate, sdk, salts, crud, request, qualifying,
                 history>>

\* ids.filter((i) => i !== id)
Without(ids, id) == SelectSeq(ids, LAMBDA i : i # id)

\* The delete handler reads the index, puts it without the id and answers 200.
DeleteIndex ==
  /\ adminPc = "unindex"
  /\ kvIndex' = Without(kvIndex, adminId)
  /\ adminPc' = "done"
  /\ adminResp' = 200
  /\ UNCHANGED <<salts, crud, sdk, estimate, kv, clock, request, observer, adminId, adminUpdated, visitorId,
                 bucketCall, bucketResult, initResp, prevInit, tracked, trackResp>>

\* ------------------------------------------------------------------ inputs

\* bucket is called with 1..MaxVariantCount variants.
MaxVariantCount == 4

\* Visitor ids: "", "a", one character of code 0xffff, and ids whose hash with
\* "e1" is 0, 200, 600, 750, 999, 1000, 1500, 2499, 2500, 4999, 5000, 7499,
\* 7500 and 9999 ten-thousandths: "v14987", "v1860", "v380", "v14466",
\* "v36098", "v3453", "v667", "v385", "v494", "v697", "v1947", "v9362",
\* "v7996", "v10436".
VisitorIds ==
  {<<>>, <<97>>, <<65535>>,
   <<118, 49, 52, 57, 56, 55>>, <<118, 49, 56, 54, 48>>, <<118, 51, 56, 48>>,
   <<118, 49, 52, 52, 54, 54>>, <<118, 51, 54, 48, 57, 56>>,
   <<118, 51, 52, 53, 51>>, <<118, 54, 54, 55>>, <<118, 51, 56, 53>>,
   <<118, 52, 57, 52>>, <<118, 54, 57, 55>>, <<118, 49, 57, 52, 55>>,
   <<118, 57, 51, 54, 50>>, <<118, 55, 57, 57, 54>>,
   <<118, 49, 48, 52, 51, 54>>}

\* The types bucket is called with: left out, "experiment" or "flag".
BucketTypes == {None, Some("experiment"), Some("flag")}

StoredIds == {"e1", "e2"}

VariantNames3 == <<"control", "a", "b">>

FlagNames == <<"off", "on">>

\* The experiments the store may hold when a run starts: three variants, with
\* the optional fields absent or set.
InitExperiments ==
  {Experiment("e1", VariantNames3, 100, None, None, None),
   Experiment("e1", VariantNames3, 100, Some("experiment"), Some(TRUE), Some(200)),
   Experiment("e1", VariantNames3, 100, None, Some(FALSE), None)}

\* The flag the store may hold when a run starts: at the first schedule step.
InitFlags == {Experiment("e1", FlagNames, 10, Some("flag"), None, None)}

ConversionCount == 10

ImpressionCounts == {100, 200}

KeySets == {{}, {0}, {0, 1}, {1, 2}, {0, 1, 2}}

\* The count rows of a query: an impression row and a conversion row for each
\* variant key of K.
CountRows(K, imp) ==
  {[variant |-> v, eventType |-> "impression", count |-> imp[v]] : v \in K}
  \cup {[variant |-> v, eventType |-> "conversion", count |-> ConversionCount] : v \in K}

RevenueRow == [variant |-> 2, total_revenue |-> 5]

\* Query results: <<count rows, revenue rows>>.  The last one has a revenue row
\* for a variant that has no count row.
WideQueryResults ==
  UNION {{<<CountRows(K, imp), {}>> : imp \in [K -> ImpressionCounts]} : K \in KeySets}
  \cup {<<CountRows({0, 1}, [v \in {0, 1} |-> 200]), {RevenueRow}>>}

NarrowQueryResults ==
  {<<CountRows(K, [v \in K |-> 200]), {}>> : K \in {{0}, {0, 1}}}

\* The outcomes of the estimates of one request, for the indices after control.
DrawIndices == 2..Cardinality(UNION KeySets)

StopDraws == [DrawIndices -> {99, 100, 9900, 9901}]

NarrowDraws == [DrawIndices -> {99, 9500, 9501, 9901}]

StatusBodies == {Body(Some(st), None, None) : st \in Statuses}

TrafficBodies == {Body(None, Some(Num(t)), None) : t \in {30}}

RejectedBodies ==
  {Body(None, Some(Num(101)), None), Body(None, Some(NotANumber), None),
   Body(None, None, Some(FlagNames)), NotJson}

\* What generateVisitorId returns: 16 hexadecimal digits.
GeneratedIds == {[i \in 1..16 |-> 102]}

\* The visitors of the assignment runs, by their hash with "e1": the empty id,
\* 0.0600 and 0.1000.
AssignVisitors == {<<>>, <<118, 51, 56, 48>>, <<118, 51, 52, 53, 51>>}

\* The records an assignment run starts from: a flag and an experiment of two
\* variants, at trafficPercent 10.
AssignRecords ==
  {Experiment("e1", FlagNames, 10, Some("flag"), None, None),
   Experiment("e1", FlagNames, 10, None, None, None)}

\* The updates of an assignment run: a raise of trafficPercent, a pause.
AssignBodies == {Body(None, Some(Num(25)), None), Body(Some("paused"), None, None)}

\* The variantIndex a client puts into a /track body.
ClientVariantIndex == 7

\* The visitors of the serving runs, by their hash with "e1": 0.2499 and 0.2500.
ServeVisitors == {<<118, 51, 56, 53>>, <<118, 52, 57, 52>>}

\* The record a serving run starts from: an experiment that auto-stop may stop.
ServeRecords == {Experiment("e1", VariantNames3, 100, None, None, None)}

\* The updates of a serving run: a cut of trafficPercent, a pause.
ServeBodies == {Body(None, Some(Num(25)), None), Body(Some("paused"), None, None)}

\* The POST bodies of a serving run: defaults, and no name.
ServeCreateBodies ==
  {CreateBody(Some("exp"), None, None, None), CreateBody(None, None, None, None)}

\* The updates of an administration run: every status, trafficPercent at and
\* beyond both ends of its range, other variants, another id and createdAt, no
\* JSON.
UpdateBodies ==
  StatusBodies \cup RejectedBodies
  \cup {Body(None, Some(Num(t)), None) : t \in {-1, 0, 100}}
  \cup {Body(None, None, Some(DefaultVariants)), IdentityBody("e2", 1)}

\* The estimates of an administration run: below and above the ramp
\* threshold, and above the stop threshold.
UpdateDraws == {[i \in DrawIndices |-> w] : w \in {9500, 9501, 9901}}

\* The POST bodies of an administration run: the defaults, trafficPercent at
\* and beyond both ends of its range or not a number, one variant, no name, no
\* JSON.
CreateBodies ==
  {CreateBody(Some("exp"), None, tp, None) :
     tp \in {None, Some(Num(-1)), Some(Num(0)), Some(Num(100)), Some(Num(101)),
              Some(NotANumber)}}
  \cup {CreateBody(Some("exp"), Some(<<"control">>), None, Some("paused")),
         CreateBody(None, None, None, None), CreateNotJson}

\* multiVariantProbabilities is called with 0..MaxVariants variants.
MaxVariants == 3

\* The counts of a variant: conversions below 0, within and above the total;
\* a total below 0.
VariantDatas ==
  {[conversions |-> -1, total |-> 5], [conversions |-> 2, total |-> 5],
   [conversions |-> 7, total |-> 5], [conversions |-> 2, total |-> -1]}

\* The variants arrays of at most MaxVariants entries.
VariantArrays == UNION {[1..n -> VariantDatas] : n \in 0..MaxVariants}

\* The paired draws of an estimate: no win, every pair a win, every third.
DrawPatterns ==
  {[every |-> 1, first |-> 0], [every |-> 1, first |-> 1], [every |-> 3, first |-> 1]}

\* ------------------------------------------------------------- the SDK

\* The calls of init that may await their fetch at once.
MaxInFlight == 2

\* The interceptors that may be stacked on dataLayer.push.
MaxWrappers == 2

\* The ids getVariant is asked for: e3 is in no response.
SdkIds == {"e1", "e3"}

\* data.assignments of an ok response.
ResponseAssignments ==
  { <<>>,
    [id \in {"e1"} |-> 1],
    [id \in {"e1", "e2"} |-> IF id = "e1" THEN 2 ELSE 0] }

\* What the fetch of a call of init comes to: a rejection (abort on timeout,
\* network error), a response that is not ok, or an ok response with its data.
FetchOutcomes ==
  {[thrown |-> TRUE, ok |-> FALSE, assignments |-> <<>>],
   [thrown |-> FALSE, ok |-> FALSE, assignments |-> <<>>]}
    \cup {[thrown |-> FALSE, ok |-> TRUE, assignments |-> a] : a \in ResponseAssignments}

\* The events of the items pushed to the dataLayer.
PushedEvents == {"purchase", "page_view"}

\* _assignments[experimentId] ?? -1
AssignmentOrMinusOne(experimentId) ==
  IF experimentId \in DOMAIN sdkAssignments THEN sdkAssignments[experimentId] ELSE -1

\* getVariant without its test of _status.
GetVariantWhateverStatus(experimentId) == AssignmentOrMinusOne(experimentId)

\* getVariant
GetVariant(experimentId) ==
  IF sdkStatus # "ready" THEN -1 ELSE AssignmentOrMinusOne(experimentId)

\* A call of getVariant, recorded with the status and the latest received
\* assignments at the call.
GetVariantCalled(experimentId) ==
  /\ variantCall' = Some([id |-> experimentId, status |-> sdkStatus,
                          received |-> received, result |-> GetVariant(experimentId)])
  /\ UNCHANGED <<hasWindow, sdkStatus, sdkAssignments, teardownDataLayer, dataLayerPush,
                 initCalls, received, pushed>>
  /\ UNCHANGED <<kv, clock, request, admin, observer, assign, estimate, salts, crud>>

\* The closures setupDataLayerInterception returns: the one without a window
\* does nothing, the other sets dl.push to the original it captured.
NoTeardown == [restores |-> FALSE, original |-> 0]

Restoring(original) == [restores |-> TRUE, original |-> original]

\* init up to its await of fetch.
SdkInit(autoRevenue) ==
  /\ Len(initCalls) < MaxInFlight
  /\ sdkStatus' = "pending"
  /\ initCalls' = Append(initCalls, autoRevenue)
  /\ UNCHANGED <<hasWindow, sdkAssignments, teardownDataLayer, dataLayerPush, received,
                 variantCall, pushed>>
  /\ UNCHANGED <<kv, clock, request, admin, observer, assign, estimate, salts, crud>>

RemoveAt(calls, i) == [j \in 1..(Len(calls) - 1) |-> IF j < i THEN calls[j] ELSE calls[j + 1]]

\* init from the settling of its fetch: the i-th awaiting call continues with
\* outcome.
SdkInitSettled(i, outcome) ==
  /\ i \in DOMAIN initCalls
  /\ initCalls' = RemoveAt(initCalls, i)
  /\ IF outcome.thrown \/ ~outcome.ok
       THEN /\ sdkStatus' = "error"
            /\ UNCHANGED <<sdkAssignments, teardownDataLayer, dataLayerPush, received>>
       ELSE /\ sdkAssignments' = outcome.assignments
            /\ received' = outcome.assignments
            /\ sdkStatus' = IF DOMAIN outcome.assignments = {} THEN "excluded" ELSE "ready"
            /\ IF initCalls[i] /\ DOMAIN outcome.assignments # {}
                 THEN IF hasWindow
                        THEN /\ dataLayerPush < MaxWrappers
                             /\ dataLayerPush' = dataLayerPush + 1
                             /\ teardownDataLayer' = Some(Restoring(dataLayerPush))
                        ELSE /\ teardownDataLayer' = Some(NoTeardown)
                             /\ UNCHANGED dataLayerPush
                 ELSE UNCHANGED <<teardownDataLayer, dataLayerPush>>
  /\ UNCHANGED <<hasWindow, variantCall, pushed>>
  /\ UNCHANGED <<kv, clock, request, admin, observer, assign, estimate, salts, crud>>

\* reset
Reset ==
  /\ sdkAssignments' = <<>>
  /\ sdkStatus' = "pending"
  /\ IF teardownDataLayer # None
       THEN /\ dataLayerPush' = IF teardownDataLayer[1].restores
                                  THEN teardownDataLayer[1].original
                                  ELSE dataLayerPush
            /\ teardownDataLayer' = None
       ELSE UNCHANGED <<teardownDataLayer, dataLayerPush>>
  /\ UNCHANGED <<hasWindow, initCalls, received, variantCall, pushed>>
  /\ UNCHANGED <<kv, clock, request, admin, observer, assign, estimate, salts, crud>>

\* The posts of one call of track("conversion", ...).
TrackPosts == IF sdkStatus # "ready" THEN 0 ELSE 1

\* The conversions one interceptor sends for an item of event.
InterceptorPosts(event) ==
  IF event = "purchase" THEN Cardinality(DOMAIN sdkAssignments) * TrackPosts ELSE 0

\* The page pushes one item of event to window.dataLayer: the item passes
\* every interceptor on its way to the original push.
DataLayerPushed(event) ==
  /\ hasWindow
  /\ pushed' = Some([event |-> event, interceptors |-> dataLayerPush,
                     conversions |-> dataLayerPush * InterceptorPosts(event)])
  /\ UNCHANGED <<hasWindow, sdkStatus, sdkAssignments, teardownDataLayer, dataLayerPush,
                 initCalls, received, variantCall>>
  /\ UNCHANGED <<kv, clock, request, admin, observer, assign, estimate, salts, crud>>

\* ------------------------------------------------------ the daily salt

\* The days after the first that a run reaches.
MaxDay == 1

Days == 0..MaxDay

\* The days a salt key may be written or deleted for.
SaltDays == (0 - 1)..(MaxDay + 1)

Isolates == {"i1", "i2"}

SaltCalls == {"g1", "g2"}

\* What generateSalt may return: the hexadecimal digits of 32 random bytes.
SaltValues == {"aa", "bb"}

NoSalts == [d \in SaltDays |-> None]

\* getSalt returns salt: cached = { date: today, salt } and the call is over.
SaltReturned(c, salt) ==
  /\ cached' = [cached EXCEPT ![saltIsolate[c]] = Some([date |-> saltToday[c], salt |-> salt])]
  /\ returnedOn' = [returnedOn EXCEPT ![saltToday[c]] = @ \cup {salt}]
  /\ saltPc' = [saltPc EXCEPT ![c] = "idle"]

\* getSalt up to its first await: the isolate's cached salt of today is
\* returned, otherwise the salt of today is asked from the store.
GetSaltCalled(c, isolate) ==
  /\ saltPc[c] = "idle"
  /\ saltToday' = [saltToday EXCEPT ![c] = day]
  /\ saltIsolate' = [saltIsolate EXCEPT ![c] = isolate]
  /\ IF cached[isolate] # None /\ cached[isolate][1].date = day
       THEN /\ returnedOn' = [returnedOn EXCEPT ![day] = @ \cup {cached[isolate][1].salt}]
            /\ UNCHANGED <<saltPc, cached>>
       ELSE /\ saltPc' = [saltPc EXCEPT ![c] = "get"]
            /\ UNCHANGED <<returnedOn, cached>>
  /\ UNCHANGED <<day, kvSalt, saltLocal, schedPc, schedToday, schedLocal>>
  /\ UNCHANGED <<kv, clock, request, admin, observer, assign, estimate, sdk, crud>>

\* FOG_KV.get answers: a stored salt is cached and returned, otherwise one is
\* generated and its put begins.
GetSaltGot(c, generated) ==
  /\ saltPc[c] = "get"
  /\ IF kvSalt[saltToday[c]] # None
       THEN /\ SaltReturned(c, kvSalt[saltToday[c]][1])
            /\ UNCHANGED saltLocal
       ELSE /\ saltLocal' = [saltLocal EXCEPT ![c] = generated]
            /\ saltPc' = [saltPc EXCEPT ![c] = "put"]
            /\ UNCHANGED <<cached, returnedOn>>
  /\ UNCHANGED <<day, kvSalt, saltToday, saltIsolate, schedPc, schedToday, schedLocal>>
  /\ UNCHANGED <<kv, clock, request, admin, observer, assign, estimate, sdk, crud>>

\* FOG_KV.put of the generated salt takes effect; it is cached and returned.
GetSaltPut(c) ==
  /\ saltPc[c] = "put"
  /\ kvSalt' = [kvSalt EXCEPT ![saltToday[c]] = Some(saltLocal[c])]
  /\ SaltReturned(c, saltLocal[c])
  /\ UNCHANGED <<day, saltToday, saltIsolate, saltLocal, schedPc, schedToday, schedLocal>>
  /\ UNCHANGED <<kv, clock, request, admin, observer, assign, estimate, sdk, crud>>

\* handleScheduled reads tomorrow's salt; without one it generates it.
ScheduledGot(generated) ==
  /\ schedPc = "idle"
  /\ schedToday' = day
  /\ IF kvSalt[day + 1] # None
       THEN schedPc' = "delete" /\ UNCHANGED schedLocal
       ELSE schedPc' = "put" /\ schedLocal' = generated
  /\ UNCHANGED <<day, kvSalt, cached, saltPc, saltToday, saltIsolate, saltLocal, returnedOn>>
  /\ UNCHANGED <<kv, clock, request, admin, observer, assign, estimate, sdk, crud>>

\* Its put of tomorrow's salt takes effect.
ScheduledPut ==
  /\ schedPc = "put"
  /\ kvSalt' = [kvSalt EXCEPT ![schedToday + 1] = Some(schedLocal)]
  /\ schedPc' = "delete"
  /\ UNCHANGED <<day, cached, saltPc, saltToday, saltIsolate, saltLocal, returnedOn,
                 schedToday, schedLocal>>
  /\ UNCHANGED <<kv, clock, request, admin, observer, assign, estimate, sdk, crud>>

\* Its delete of yesterday's salt takes effect.
ScheduledDelete ==
  /\ schedPc = "delete"
  /\ kvSalt' = [kvSalt EXCEPT ![schedToday - 1] = None]
  /\ schedPc' = "idle"
  /\ UNCHANGED <<day, cached, saltPc, saltToday, saltIsolate, saltLocal, returnedOn,
                 schedToday, schedLocal>>
  /\ UNCHANGED <<kv, clock, request, admin, observer, assign, estimate, sdk, crud>>

\* Midnight UTC passes.
Midnight ==
  /\ day < MaxDay
  /\ day' = day + 1
  /\ UNCHANGED <<kvSalt, cached, saltPc, saltToday, saltIsolate, saltLocal, returnedOn,
                 schedPc, schedToday, schedLocal>>
  /\ UNCHANGED <<kv, clock, request, admin, observer, assign, estimate, sdk, crud>>

\* --------------------------- concurrent POST and DELETE /api/experiments

AdminRequests == {"a1", "a2"}

\* POST with a valid body: the record is put under a new id, one that
\* crypto.randomUUID() has not returned before.
PostPut(a, id, body) ==
  /\ crudPc[a] = "idle"
  /\ CreateRejection(body) = 0
  /\ id \notin issued
  /\ issued' = issued \cup {id}
  /\ kvExp' = [kvExp EXCEPT ![id] = Some(Created(id, body, clock))]
  /\ crudPc' = [crudPc EXCEPT ![a] = "getIndex"]
  /\ crudOp' = [crudOp EXCEPT ![a] = "POST"]
  /\ crudId' = [crudId EXCEPT ![a] = id]
  /\ UNCHANGED <<crudIds, kvCtr, kvIndex>>
  /\ UNCHANGED <<clock, request, admin, observer, visitorId, bucketCall, bucketResult,
                 initResp, prevInit, tracked, trackResp, estimate, sdk, salts>>

\* DELETE of id: the record is deleted.
DeleteKey(a, id) ==
  /\ crudPc[a] = "idle"
  /\ kvExp' = [kvExp EXCEPT ![id] = None]
  /\ crudPc' = [crudPc EXCEPT ![a] = "getIndex"]
  /\ crudOp' = [crudOp EXCEPT ![a] = "DELETE"]
  /\ crudId' = [crudId EXCEPT ![a] = id]
  /\ UNCHANGED <<crudIds, kvCtr, kvIndex>>
  /\ UNCHANGED issued
  /\ UNCHANGED <<clock, request, admin, observer, visitorId, bucketCall, bucketResult,
                 initResp, prevInit, tracked, trackResp, estimate, sdk, salts>>

\* getIndex answers the request.
GetIndex(a) ==
  /\ crudPc[a] = "getIndex"
  /\ crudIds' = [crudIds EXCEPT ![a] = kvIndex]
  /\ crudPc' = [crudPc EXCEPT ![a] = "setIndex"]
  /\ UNCHANGED <<crudOp, crudId, issued, kv, kvIndex>>
  /\ UNCHANGED <<clock, request, admin, observer, visitorId, bucketCall, bucketResult,
                 initResp, prevInit, tracked, trackResp, estimate, sdk, salts>>

\* What the request writes as the index: its ids with the id appended (POST)
\* or filtered out (DELETE).
IndexWritten(a) ==
  IF crudOp[a] = "POST" THEN Append(crudIds[a], crudId[a]) ELSE Without(crudIds[a], crudId[a])

\* setIndex takes effect and the request is answered.
SetIndex(a) ==
  /\ crudPc[a] = "setIndex"
  /\ kvIndex' = IndexWritten(a)
  /\ crudPc' = [crudPc EXCEPT ![a] = "idle"]
  /\ UNCHANGED <<crudOp, crudId, crudIds, issued, kv>>
  /\ UNCHANGED <<clock, request, admin, observer, visitorId, bucketCall, bucketResult,
                 initResp, prevInit, tracked, trackResp, estimate, sdk, salts>>

\* ----------------------------------------------------------- specifications

\* The state before any request: the store holds one of stores under the
\* experiment keys and one of indexes as the index, no counter, and the run
\* follows one of visitors.
InitCounted(stores, counters, indexes, visitors) ==
  /\ kvExp \in stores
  /\ kvCtr \in counters
  /\ clock = 0
  /\ pc = [p \in Requests |-> "idle"]
  /\ expId = [p \in Requests |-> "e1"]
  /\ stats = [p \in Requests |-> <<>>]
  /\ experiment = [p \in Requests |-> None]
  /\ probabilities = [p \in Requests |-> <<>>]
  /\ consecutive = [p \in Requests |-> 0]
  /\ updated = [p \in Requests |-> None]
  /\ finalExp = [p \in Requests |-> None]
  /\ resp = [p \in Requests |-> None]
  /\ putCalls = [p \in Requests |-> <<>>]
  /\ before = [p \in Requests |-> NoSnapshot]
  /\ streak = [id \in StoredIds |-> <<>>]
  /\ qualifying = [id \in StoredIds |-> 0]
  /\ adminPc = "idle"
  /\ adminId = "e1"
  /\ adminUpdated = None
  /\ adminResp = 0
  /\ kvIndex \in indexes
  /\ visitorId \in visitors
  /\ bucketCall = None
  /\ bucketResult = None
  /\ initResp = None
  /\ prevInit = None
  /\ tracked = None
  /\ trackResp = 0
  /\ statsCall = None
  /\ statsResult = None

\* The SDK module as loaded, in one of the environments of windows, with the
\* page's own dataLayer.push.
InitSdk(windows) ==
  /\ hasWindow \in windows
  /\ sdkStatus = "pending"
  /\ sdkAssignments = <<>>
  /\ teardownDataLayer = None
  /\ dataLayerPush = 0
  /\ initCalls = <<>>
  /\ received = <<>>
  /\ variantCall = None
  /\ pushed = None

\* Day 0 with one of saltStores, nothing cached, no call of getSalt and no
\* scheduled run under way.
InitSalts(saltStores) ==
  /\ day = 0
  /\ kvSalt \in saltStores
  /\ cached = [i \in Isolates |-> None]
  /\ saltPc = [c \in SaltCalls |-> "idle"]
  /\ saltToday = [c \in SaltCalls |-> 0]
  /\ saltIsolate = [c \in SaltCalls |-> "i1"]
  /\ saltLocal = [c \in SaltCalls |-> ""]
  /\ returnedOn = [d \in Days |-> {}]
  /\ schedPc = "idle"
  /\ schedToday = 0
  /\ schedLocal = ""

\* No POST or DELETE under way.
InitCrud ==
  /\ crudPc = [a \in AdminRequests |-> "idle"]
  /\ crudOp = [a \in AdminRequests |-> "POST"]
  /\ crudId = [a \in AdminRequests |-> "e1"]
  /\ crudIds = [a \in AdminRequests |-> <<>>]
  /\ issued = {id \in StoredIds : kvExp[id] # None}

\* What the run keeps of its history, nothing kept yet.
InitHistory(kept) ==
  /\ followed = kept
  /\ fresh = [p \in Requests |-> FALSE]
  /\ hitsSince = 0
  /\ evaluations = 0

\* No counter stored.
InitWorker(stores, indexes, visitors) ==
  InitCounted(stores, {[id \in StoredIds |-> None]}, indexes, visitors)

InitKept(stores, indexes, visitors, kept) ==
  /\ InitWorker(stores, indexes, visitors)
  /\ InitHistory(kept)
  /\ InitSdk({TRUE})
  /\ InitSalts({NoSalts})
  /\ InitCrud

InitFrom(stores, indexes, visitors) == InitKept(stores, indexes, visitors, {})

\* One of records stored at e1 and indexed, nothing at e2.
InitOf(records, visitors) ==
  InitFrom({[id \in StoredIds |-> IF id = "e1" THEN Some(rec) ELSE None] : rec \in records},
           {<<"e1">>}, visitors)

InitWith(records) == InitOf(records, {<<>>})

Init == InitWith(InitExperiments \cup InitFlags)

\* No handler is between its first and its last step.
Quiescent ==
  /\ \A p \in Requests : pc[p] \in {"idle", "done"}
  /\ adminPc \in {"idle", "done"}

\* A handler that starts only when none is running.
SeqInvalidId(p, id) == Quiescent /\ ResultsInvalidId(p, id)

SeqQueryFails(p, id) == Quiescent /\ ResultsQueryFails(p, id)

SeqQuery(p, id, rows, revenueRows) == Quiescent /\ ResultsQuery(p, id, rows, revenueRows, TRUE)

SeqUpdateGet(id, body) == Quiescent /\ UpdateGet(id, body)

\* The steps of a request after its query, with puts that take effect.
ResultsStep(p, draws, keep) ==
  \/ ResultsGetExperiment(p, draws, keep)
  \/ StopPut(p, keep)
  \/ RampGetCounter(p)
  \/ RampPutCounter(p, keep)
  \/ RampPutExperiment(p)
  \/ RampPutZero(p, keep)
  \/ RampMiss(p, keep)

\* Requests one at a time, of an experiment or a flag.
SeqNext ==
  \/ \E id \in Ids : SeqInvalidId("r1", id)
  \/ \E id \in Ids : SeqQueryFails("r1", id)
  \/ \E id \in StoredIds, q \in NarrowQueryResults : SeqQuery("r1", id, q[1], q[2])
  \/ \E draws \in NarrowDraws : ResultsStep("r1", draws, TRUE)
  \/ \E body \in StatusBodies \cup TrafficBodies \cup RejectedBodies : SeqUpdateGet("e1", body)
  \/ UpdatePut
  \/ Tick

SeqSpec == Init /\ [][SeqNext]_vars

\* Requests one at a time, of an experiment, over every query result.
StopNext ==
  \/ \E q \in WideQueryResults : SeqQuery("r1", "e1", q[1], q[2])
  \/ \E draws \in StopDraws : ResultsGetExperiment("r1", draws, TRUE)
  \/ StopPut("r1", TRUE)
  \/ SeqUpdateGet("e1", Body(Some("paused"), None, None))
  \/ UpdatePut
  \/ Tick

StopSpec == InitWith(InitExperiments) /\ [][StopNext]_vars

\* Requests one at a time, whose puts may fail.
FailNext ==
  \/ \E id \in StoredIds, q \in NarrowQueryResults : SeqQuery("r1", id, q[1], q[2])
  \/ \E draws \in NarrowDraws : ResultsStep("r1", draws, TRUE)
  \/ PutFails("r1", TRUE)
  \/ Tick

FailSpec == Init /\ [][FailNext]_vars

ConcQueryResults == {<<CountRows({0, 1, 2}, [v \in {0, 1, 2} |-> 200]), {}>>}

ConcDraws == {[i \in DrawIndices |-> w] : w \in {99, 9901}}

PauseBodies == {Body(Some(st), None, None) : st \in {"paused", "active"}}

InitConcurrent ==
  {Experiment("e1", VariantNames3, 100, None, None, None),
   Experiment("e1", VariantNames3, 100, None, Some(FALSE), None)}

\* Concurrent evaluations and updates of one experiment: any handler may start
\* and take its next step at any time.
Next ==
  \/ \E p \in Requests, q \in ConcQueryResults : ResultsQuery(p, "e1", q[1], q[2], FALSE)
  \/ \E p \in Requests, draws \in ConcDraws : ResultsGetExperiment(p, draws, FALSE)
  \/ \E p \in Requests : StopPut(p, FALSE)
  \/ \E body \in PauseBodies : UpdateGet("e1", body)
  \/ UpdatePut

Spec == InitWith(InitConcurrent) /\ [][Next]_vars

\* A flag at any whole trafficPercent.
RampFlags == {Experiment("e1", FlagNames, t, Some("flag"), None, None) : t \in 0..100}

RampQueryResults == {<<CountRows({0, 1}, [v \in {0, 1} |-> 200]), {}>>}

RampDraws == {[i \in DrawIndices |-> w] : w \in {9500, 9501}}

\* Evaluations one at a time of a flag that starts at any trafficPercent.
RampNext ==
  \/ \E q \in RampQueryResults : SeqQuery("r1", "e1", q[1], q[2])
  \/ \E draws \in RampDraws : ResultsGetExperiment("r1", draws, TRUE)
  \/ RampGetCounter("r1")
  \/ RampPutCounter("r1", TRUE)
  \/ RampPutExperiment("r1")
  \/ RampPutZero("r1", TRUE)
  \/ RampMiss("r1", TRUE)

RampSpec == InitWith(RampFlags) /\ [][RampNext]_vars

\* Concurrent evaluations of one flag, with no update: any evaluation may
\* start and take its next step at any time.
RaceNext ==
  \/ \E p \in Requests, q \in RampQueryResults : ResultsQuery(p, "e1", q[1], q[2], FALSE)
  \/ \E p \in Requests, draws \in ConcDraws : ResultsGetExperiment(p, draws, FALSE)
  \/ \E p \in Requests : RampGetCounter(p)
  \/ \E p \in Requests : RampPutCounter(p, FALSE)
  \/ \E p \in Requests : RampPutExperiment(p)
  \/ \E p \in Requests : RampPutZero(p, FALSE)
  \/ \E p \in Requests : RampMiss(p, FALSE)

RaceStart ==
  InitKept({[id \in StoredIds |-> IF id = "e1" THEN Some(rec) ELSE None] : rec \in InitFlags},
           {<<"e1">>}, {<<>>}, {"hits"})

RaceSpec == RaceStart /\ [][RaceNext]_vars

\* Estimates above the ramp threshold only.
HitDraws == {[i \in DrawIndices |-> w] : w \in {9501, 9901}}

\* Evaluations one at a time of a flag, each observing a probability above
\* 0.95, with puts that take effect.
LadderNext ==
  \/ \E q \in RampQueryResults : SeqQuery("r1", "e1", q[1], q[2])
  \/ \E draws \in HitDraws : ResultsGetExperiment("r1", draws, TRUE)
  \/ RampGetCounter("r1")
  \/ RampPutCounter("r1", TRUE)
  \/ RampPutExperiment("r1")
  \/ RampPutZero("r1", TRUE)

\* The flag at the first schedule step, its counter absent or "0".
LadderStart ==
  /\ InitCounted({[id \in StoredIds |-> IF id = "e1" THEN Some(rec) ELSE None] :
                   rec \in InitFlags},
                 {[id \in StoredIds |-> IF id = "e1" THEN c ELSE None] :
                   c \in {None, Some(JsString(0))}},
                 {<<"e1">>}, {<<>>})
  /\ InitHistory({"evaluations"})
  /\ InitSdk({TRUE})
  /\ InitSalts({NoSalts})
  /\ InitCrud

\* The evaluations go on: a request is always followed by another, and every
\* step of its handler is taken.
LadderSpec == LadderStart /\ [][LadderNext]_vars /\ WF_vars(LadderNext)

\* Concurrent evaluations of one experiment, with no update, as time passes.
StopRaceNext ==
  \/ \E p \in Requests, q \in ConcQueryResults : ResultsQuery(p, "e1", q[1], q[2], FALSE)
  \/ \E p \in Requests, draws \in ConcDraws : ResultsGetExperiment(p, draws, FALSE)
  \/ \E p \in Requests : StopPut(p, FALSE)
  \/ Tick

StopRaceSpec == InitWith(InitConcurrent) /\ [][StopRaceNext]_vars

\* Calls of bucket for a visitor, over the experiment ids (the empty one
\* included), variant counts, trafficPercent values and types.
BucketNext ==
  \/ \E experimentId \in {"", "e1", "e2"}, variantCount \in 1..MaxVariantCount,
        trafficPercent \in TrafficPercents, type \in BucketTypes :
       BucketCalled(experimentId, variantCount, trafficPercent, type)
  \/ BucketReturned

BucketSpec == InitOf(InitFlags, VisitorIds) /\ [][BucketNext]_vars

\* The /track bodies of the run's visitor.
TrackBodies ==
  {TrackNotJson,
   TrackBody(Some(visitorId), Some("e1"), None, None),
   TrackBody(None, None, Some("pageview"), None),
   TrackBody(None, Some("e1"), Some("impression"), None),
   TrackBody(Some(visitorId), None, Some("impression"), None),
   TrackBody(Some(visitorId), Some("E!"), Some("impression"), None),
   TrackBody(Some(visitorId), Some("e1"), Some("impression"), None),
   TrackBody(Some(visitorId), Some("e1"), Some("impression"), Some(ClientVariantIndex))}

\* /init and /track requests of one visitor, between updates of the record.
AssignNext ==
  \/ \E param \in {None, Some(visitorId)}, generated \in GeneratedIds :
       HandleInit(param, generated)
  \/ \E body \in TrackBodies, bot \in BOOLEAN, generated \in GeneratedIds :
       HandleTrack(body, bot, generated)
  \/ \E body \in AssignBodies : SeqUpdateGet("e1", body)
  \/ UpdatePut

AssignSpec == InitOf(AssignRecords, AssignVisitors) /\ [][AssignNext]_vars

\* The /track bodies of a serving run: an impression of the run's visitor, of
\* e1 or of an id that is not stored, and one without an event.
ServeTrackBodies ==
  {TrackBody(Some(visitorId), Some("e1"), Some("impression"), Some(ClientVariantIndex)),
   TrackBody(Some(visitorId), Some("E!"), Some("impression"), None),
   TrackBody(Some(visitorId), Some("e1"), None, None)}

\* /init requests of one visitor between evaluations that may stop the
\* experiment, updates, a creation and deletions.
ServeNext ==
  \/ \E param \in {Some(visitorId)}, generated \in GeneratedIds :
       HandleInit(param, generated)
  \/ \E q \in ConcQueryResults : SeqQuery("r1", "e1", q[1], q[2])
  \/ \E draws \in ConcDraws : ResultsGetExperiment("r1", draws, FALSE)
  \/ StopPut("r1", FALSE)
  \/ \E body \in ServeBodies : SeqUpdateGet("e1", body)
  \/ UpdatePut
  \/ \E body \in ServeCreateBodies : Quiescent /\ CreatePut("e2", body)
  \/ CreateIndex
  \/ \E id \in StoredIds : Quiescent /\ DeleteRecord(id)
  \/ DeleteIndex

ServeSpec == InitOf(ServeRecords, ServeVisitors) /\ [][ServeNext]_vars

\* /init and /track requests of one visitor between evaluations that may stop
\* the experiment and updates.
WriteNext ==
  \/ \E param \in {Some(visitorId)}, generated \in GeneratedIds :
       HandleInit(param, generated)
  \/ \E body \in ServeTrackBodies, bot \in BOOLEAN, generated \in GeneratedIds :
       HandleTrack(body, bot, generated)
  \/ \E q \in ConcQueryResults : SeqQuery("r1", "e1", q[1], q[2])
  \/ \E draws \in ConcDraws : ResultsGetExperiment("r1", draws, FALSE)
  \/ StopPut("r1", FALSE)
  \/ \E body \in ServeBodies : SeqUpdateGet("e1", body)
  \/ UpdatePut

WriteSpec == InitOf(ServeRecords, {<<118, 51, 56, 53>>}) /\ [][WriteNext]_vars

\* Updates and creations between evaluations, one handler at a time, of an
\* experiment that may be stopped or a flag that may be ramped.
UpdateNext ==
  \/ \E id \in StoredIds, body \in UpdateBodies : SeqUpdateGet(id, body)
  \/ UpdatePut
  \/ \E body \in CreateBodies : Quiescent /\ CreatePut("e2", body)
  \/ CreateIndex
  \/ \E q \in RampQueryResults : SeqQuery("r1", "e1", q[1], q[2])
  \/ \E draws \in UpdateDraws : ResultsStep("r1", draws, FALSE)

UpdateSpec == Init /\ [][UpdateNext]_vars

\* Calls of multiVariantProbabilities, each estimate of a call with the same
\* paired draws.
StatsNext ==
  \/ \E variants \in VariantArrays, pattern \in DrawPatterns :
       StatsCalled(variants, [i \in 1..Len(variants) |-> pattern])
  \/ StatsReturned

StatsSpec == InitWith(InitFlags) /\ [][StatsNext]_vars

\* The SDK in a page or on a server: calls of init and the settling of their
\* fetches in any order, reset, getVariant and pushes to the dataLayer.
SdkNext ==
  \/ \E autoRevenue \in BOOLEAN : SdkInit(autoRevenue)
  \/ \E i \in 1..MaxInFlight, outcome \in FetchOutcomes : SdkInitSettled(i, outcome)
  \/ Reset
  \/ \E experimentId \in SdkIds : GetVariantCalled(experimentId)
  \/ \E event \in PushedEvents : DataLayerPushed(event)

\* An empty store, and the SDK with or without a window.
SdkLoaded ==
  /\ InitWorker({[id \in StoredIds |-> None]}, {<<>>}, {<<>>})
  /\ InitHistory({})
  /\ InitSdk(BOOLEAN)
  /\ InitSalts({NoSalts})
  /\ InitCrud

SdkSpec == SdkLoaded /\ [][SdkNext]_vars

\* Calls of getSalt in two isolates, the scheduled run and midnight, in any
\* order.
SaltNext ==
  \/ \E c \in SaltCalls, isolate \in Isolates : GetSaltCalled(c, isolate)
  \/ \E c \in SaltCalls, generated \in SaltValues : GetSaltGot(c, generated)
  \/ \E c \in SaltCalls : GetSaltPut(c)
  \/ \E generated \in SaltValues : ScheduledGot(generated)
  \/ ScheduledPut
  \/ ScheduledDelete
  \/ Midnight

\* A store without salts (before the first scheduled run) or with today's.
SaltStart ==
  /\ InitWorker({[id \in StoredIds |-> None]}, {<<>>}, {<<>>})
  /\ InitHistory({})
  /\ InitSdk({TRUE})
  /\ InitSalts({NoSalts, [NoSalts EXCEPT ![0] = Some("aa")]})
  /\ InitCrud

SaltSpec == SaltStart /\ [][SaltNext]_vars

\* The bodies of the concurrent creations.
CrudBodies == {CreateBody(Some("n"), None, None, None)}

\* POST and DELETE requests of /api/experiments in any interleaving.
CrudNext ==
  \/ \E a \in AdminRequests, id \in StoredIds, body \in CrudBodies : PostPut(a, id, body)
  \/ \E a \in AdminRequests, id \in StoredIds : DeleteKey(a, id)
  \/ \E a \in AdminRequests : GetIndex(a)
  \/ \E a \in AdminRequests : SetIndex(a)

\* An empty store and an empty index, or e1 stored and listed.
CrudStart ==
  /\ InitWorker({[id \in StoredIds |-> None]} \cup
                 {[id \in StoredIds |-> IF id = "e1" THEN Some(rec) ELSE None] :
                    rec \in ServeRecords},
                {<<>>, <<"e1">>}, {<<>>})
  /\ (kvExp["e1"] # None <=> kvIndex = <<"e1">>)
  /\ InitHistory({})
  /\ InitSdk({TRUE})
  /\ InitSalts({NoSalts})
  /\ InitCrud

CrudSpec == CrudStart /\ [][CrudNext]_vars

\* ------------------------------------------------------------------ claims

\* The record the store holds at id is exp with trafficPercent = t and some
\* updatedAt.
RampedTo(rec, exp, t) == rec = [exp EXCEPT !.trafficPercent = t, !.updatedAt = rec.updatedAt]

\* Three evaluations of the flag e1 in a row, each observing a probability
\* above the ramp threshold, have completed, the first of them from
\* trafficPercent 10 and a counter absent or "0", and nothing has happened
\* since the third.
ThreeHitsFromTen ==
  /\ pc["r1"] = "done"
  /\ expId["r1"] = "e1"
  /\ Len(streak["e1"]) = FLAG_CONSECUTIVE_REQUIRED
  /\ streak["e1"][1].before.exp[1].trafficPercent = 10
  /\ streak["e1"][1].before.ctr \in {None, Some(JsString(0))}

\* C1: three consecutive evaluations of an active flag at trafficPercent 10
\* with the counter absent or 0, each observing a probability above 0.95, leave
\* the record at trafficPercent 25 and the counter at "0"; the first wrote the
\* counter "1" and nothing else, the second the counter "2" and nothing else.
C1_ThreeHitsRampToTwentyFive ==
  ThreeHitsFromTen =>
    LET first == streak["e1"][1]
        second == streak["e1"][2]
        third == streak["e1"][3]
    IN  /\ first.puts = <<PutOfCounter("e1", JsString(1))>>
        /\ second.puts = <<PutOfCounter("e1", JsString(2))>>
        /\ second.before = [exp |-> first.before.exp, ctr |-> Some(JsString(1))]
        /\ third.before = [exp |-> first.before.exp, ctr |-> Some(JsString(2))]
        /\ Len(third.puts) = 3
        /\ third.puts[1] = PutOfCounter("e1", JsString(3))
        /\ third.puts[2].key = "experiment"
        /\ RampedTo(third.puts[2].exp[1], first.before.exp[1], 25)
        /\ third.puts[3] = PutOfCounter("e1", JsString(0))
        /\ kvExp["e1"] = third.puts[2].exp
        /\ kvCtr["e1"] = Some(JsString(0))

C1_Witness ==
  /\ ThreeHitsFromTen
  /\ kvExp["e1"][1].trafficPercent = 25
  /\ kvCtr["e1"] = Some(JsString(0))

\* The request p has completed an evaluation of an active flag in which the
\* probability of the second variant was at most 0.95.
SubThresholdEvaluation(p) ==
  /\ pc[p] = "done"
  /\ resp[p] # None /\ resp[p][1].status = 200
  /\ experiment[p] # None
  /\ experiment[p][1].status = "active"
  /\ experiment[p][1].type = Some("flag")
  /\ Len(probabilities[p]) >= 2
  /\ probabilities[p][2] # None
  /\ probabilities[p][2][1] <= FLAG_RAMP_THRESHOLD

\* C2: an evaluation of an active flag that observes a probability <= 0.95
\* writes the counter "0", whatever it was, and nothing else; and the record is
\* written by a ramp only when at least 3 evaluations observed a probability
\* above 0.95 since the last reset or ramp.
C2_MissResetsAndRampNeedsThree ==
  \A p \in Requests :
    /\ SubThresholdEvaluation(p) =>
          /\ putCalls[p] = <<PutOfCounter(expId[p], JsString(0))>>
          /\ kvCtr[expId[p]] = Some(JsString(0))
    /\ pc[p] \in {"rampPutExperiment", "rampPutZero"} =>
          qualifying[expId[p]] >= FLAG_CONSECUTIVE_REQUIRED

C2_Witness ==
  /\ SubThresholdEvaluation("r1")
  /\ before["r1"].ctr = Some(JsString(2))
  /\ kvCtr[expId["r1"]] = Some(JsString(0))

\* The request p has completed with a put of the experiment record made by
\* auto-stop: the record it read was no flag.
StoppedBy(p) ==
  /\ pc[p] = "done"
  /\ experiment[p] # None
  /\ experiment[p][1].type # Some("flag")
  /\ Len(putCalls[p]) > 0

\* C3: when auto-stop declares a winner for an active experiment, the record
\* written under the experiment's key is the record read with status
\* completed, the name of a variant that crossed a threshold (or of control,
\* for the lower one) as winner, and completedAt = updatedAt = the time of the
\* decision; the response reports that status, winner and completedAt.
C3_StopWritesCompletedRecord ==
  \A p \in Requests :
    StoppedBy(p) =>
      LET exp == experiment[p][1]
          put == putCalls[p][1]
          rec == put.exp[1]
          keys == VariantKeys(stats[p])
          probs == probabilities[p]
      IN  /\ Len(putCalls[p]) = 1
          /\ exp.status = "active"
          /\ put.key = "experiment" /\ put.id = exp.id /\ put.exp # None
          /\ rec.status = "completed"
          /\ rec.winner # None
          /\ \E i \in 2..Len(keys) :
                \/ probs[i][1] > StopWinThreshold
                   /\ rec.winner[1] = VariantName(exp.variants, keys[i])
                \/ probs[i][1] < StopLoseThreshold
                   /\ rec.winner[1] = VariantName(exp.variants, keys[1])
          /\ rec.completedAt = Some(rec.updatedAt)
          /\ rec.updatedAt <= clock
          /\ rec = [exp EXCEPT !.status = rec.status, !.winner = rec.winner,
                               !.completedAt = rec.completedAt,
                               !.updatedAt = rec.updatedAt]
          /\ resp[p][1].status = 200
          /\ resp[p][1].expStatus = Some("completed")
          /\ resp[p][1].winner = rec.winner
          /\ resp[p][1].completedAt = rec.completedAt

C3_Witness ==
  /\ StoppedBy("r1")
  /\ putCalls["r1"][1].exp[1].winner = Some("a")
  /\ putCalls["r1"][1].exp[1].completedAt = Some(1)
  /\ resp["r1"][1].winner = Some("a")

\* C4: the put of auto-stop is applied only over a stored record whose status
\* is active at the moment of the put.
C4_StopPutOnlyOverActive ==
  [][\A p \in Requests :
       (pc[p] = "stopPut" /\ pc'[p] # "stopPut") =>
         /\ kvExp[expId[p]] # None
         /\ kvExp[expId[p]][1].status = "active"]_vars

\* C5: an evaluation that reads a record whose status is completed or paused
\* ends, whatever the type and the counts, without a put: the step that reads
\* the record returns the response, and the store stays as it is.
C5_InactiveRecordNoPut ==
  [][\A p \in Requests :
       (/\ pc[p] = "get" /\ pc'[p] # "get"
        /\ kvExp[expId[p]] # None
        /\ kvExp[expId[p]][1].status \in {"completed", "paused"}) =>
         /\ pc'[p] = "done"
         /\ putCalls'[p] = <<>>
         /\ resp'[p][1].status = 200
         /\ resp'[p][1].expStatus = Some(kvExp[expId[p]][1].status)
         /\ kv' = kv]_vars

\* A paused flag was evaluated with a probability above the threshold while
\* its counter stood at 2.
C5_Witness ==
  /\ pc["r1"] = "done"
  /\ experiment["r1"] # None
  /\ experiment["r1"][1].status = "paused"
  /\ experiment["r1"][1].type = Some("flag")
  /\ Len(probabilities["r1"]) = 2
  /\ probabilities["r1"][2][1] > FLAG_RAMP_THRESHOLD
  /\ putCalls["r1"] = <<>>
  /\ kvCtr["e1"] = Some(JsString(2))

\* C6: auto-stop completes an experiment only if every variant of the record
\* has at least minSamplesPerVariant impressions (100 when the field is absent),
\* a variant without rows counting as 0 impressions.
C6_StopNeedsEveryVariantOfRecord ==
  \A p \in Requests :
    StoppedBy(p) =>
      \A k \in 0..(Len(experiment[p][1].variants) - 1) :
        /\ k \in DOMAIN stats[p]
        /\ stats[p][k].impressions >=
             Coalesce(experiment[p][1].minSamplesPerVariant, DefaultMinSamples)

\* The record raw is one auto-stop applies to.
StopApplies(raw) ==
  /\ raw # None
  /\ raw[1].status = "active"
  /\ raw[1].type \in {None, Some("experiment")}
  /\ raw[1].autoStop # Some(FALSE)

\* Every variant the aggregation returned has the record's minimum of
\* impressions.
EnoughSamples(p) ==
  \A k \in DOMAIN stats[p] :
    stats[p][k].impressions >=
      Coalesce(experiment[p][1].minSamplesPerVariant, DefaultMinSamples)

\* The positions after control whose probability is above 0.99 or below 0.01.
Deciding(p) ==
  {i \in 2..Len(probabilities[p]) :
     \/ probabilities[p][i][1] > StopWinThreshold
     \/ probabilities[p][i][1] < StopLoseThreshold}

\* C7: auto-stop decides on the first position after control, in ascending
\* index order, whose probability is > 0.99 (that variant wins) or < 0.01
\* (control wins), whatever the probabilities of later positions; 0.99 and 0.01
\* themselves do not decide; with no such position nothing is decided.
C7_FirstDecidingVariantWins ==
  \A p \in Requests :
    (pc[p] = "done" /\ StopApplies(experiment[p]) /\ EnoughSamples(p)) =>
      LET keys == VariantKeys(stats[p])
          names == experiment[p][1].variants
      IN  IF Deciding(p) = {}
          THEN /\ putCalls[p] = <<>>
               /\ resp[p][1].expStatus = Some("active")
               /\ resp[p][1].winner = None
          ELSE LET m == CHOOSE i \in Deciding(p) : \A j \in Deciding(p) : i <= j
                   winner == IF probabilities[p][m][1] > StopWinThreshold
                             THEN VariantName(names, keys[m])
                             ELSE VariantName(names, keys[1])
               IN  /\ Len(putCalls[p]) = 1
                   /\ putCalls[p][1].exp[1].winner = Some(winner)
                   /\ resp[p][1].winner = Some(winner)

\* Control won on the first treatment although the second was above 0.99.
C7_Witness ==
  /\ pc["r1"] = "done"
  /\ StopApplies(experiment["r1"])
  /\ probabilities["r1"] = <<None, Some(99), Some(9901)>>
  /\ resp["r1"][1].winner = Some("control")

\* C8: the puts of an evaluation are those of the one evaluator the record
\* read calls for: the counter is put only for an active flag; a put of the
\* record that changes status is made only for an active record of type
\* experiment (or no type) whose autoStop is not false, and leaves
\* trafficPercent alone; a put that changes trafficPercent is made only for
\* an active flag, and leaves status alone.
C8_OneEvaluatorByTypeAndStatus ==
  \A p \in Requests :
    pc[p] = "done" =>
      IF experiment[p] = None THEN putCalls[p] = <<>>
      ELSE LET exp == experiment[p][1]
               expType == Coalesce(exp.type, "experiment")
           IN  \A i \in 1..Len(putCalls[p]) :
                 LET put == putCalls[p][i]
                 IN  /\ exp.status = "active"
                     /\ put.key = "autostop" => expType = "flag"
                     /\ put.key = "experiment" =>
                          /\ put.exp[1].status # exp.status =>
                               /\ expType = "experiment"
                               /\ exp.autoStop # Some(FALSE)
                               /\ put.exp[1].trafficPercent = exp.trafficPercent
                          /\ put.exp[1].trafficPercent # exp.trafficPercent =>
                               /\ expType = "flag"
                               /\ put.exp[1].status = exp.status
                          /\ put.exp[1].status = "completed" => expType # "flag"

\* An active experiment whose autoStop is false was evaluated with a
\* probability above 0.99 and enough samples.
C8_Witness ==
  /\ pc["r1"] = "done"
  /\ experiment["r1"] # None
  /\ experiment["r1"][1].status = "active"
  /\ experiment["r1"][1].autoStop = Some(FALSE)
  /\ Len(probabilities["r1"]) = 2
  /\ probabilities["r1"][2] = Some(9901)
  /\ EnoughSamples("r1")
  /\ putCalls["r1"] = <<>>

\* Auto-stop has no winner to declare for what the request p holds.
NoWinner(p) == ~EnoughSamples(p) \/ Deciding(p) = {}

\* C9: an auto-stop evaluation that declares no winner ends without a put:
\* the step that reads the record returns the response, with the record's
\* status, and the store stays as it is.
C9_NoWinnerNoPut ==
  [][\A p \in Requests :
       (/\ pc[p] = "get" /\ pc'[p] # "get"
        /\ StopApplies(kvExp[expId[p]])
        /\ NoWinner(p)') =>
         /\ pc'[p] = "done"
         /\ putCalls'[p] = <<>>
         /\ resp'[p][1].expStatus = Some("active")
         /\ resp'[p][1].winner = None
         /\ kv' = kv]_vars

\* A probability above 0.99 with a variant short of the record's minimum of
\* 200 impressions.
C9_Witness ==
  /\ pc["r1"] = "done"
  /\ StopApplies(experiment["r1"])
  /\ experiment["r1"][1].minSamplesPerVariant = Some(200)
  /\ ~EnoughSamples("r1")
  /\ Len(probabilities["r1"]) >= 2
  /\ probabilities["r1"][2] = Some(9901)
  /\ putCalls["r1"] = <<>>
  /\ kvExp["e1"] = before["r1"].exp

\* C10: an evaluation in which a put failed leaves nothing of its decision in
\* the store or all of it: the record as it was, or the counter reset to "0".
C10_NoPartialDecision ==
  \A p \in Requests :
    (pc[p] = "done" /\ resp[p][1].status = 500) =>
      \/ kvExp[expId[p]] = before[p].exp
      \/ kvCtr[expId[p]] = Some(JsString(0))

\* The request p has completed an evaluation of an active flag that put the
\* record.
RampedBy(p) ==
  /\ pc[p] = "done"
  /\ experiment[p] # None
  /\ experiment[p][1].type = Some("flag")
  /\ \E i \in 1..Len(putCalls[p]) : putCalls[p][i].key = "experiment"

\* C11: the record auto-ramp puts is the record read with trafficPercent set
\* to the smallest value of the schedule 10, 25, 50, 75, 100 strictly above the
\* trafficPercent read, on the schedule or not, and with a new updatedAt; no
\* other field differs.
C11_RampToNextScheduleStep ==
  \A p \in Requests :
    RampedBy(p) =>
      LET exp == experiment[p][1]
          rec == putCalls[p][2].exp[1]
      IN  /\ putCalls[p][2].key = "experiment"
          /\ exp.trafficPercent < 100
          /\ rec.trafficPercent \in {10, 25, 50, 75, 100}
          /\ rec.trafficPercent > exp.trafficPercent
          /\ \A step \in {10, 25, 50, 75, 100} :
                step > exp.trafficPercent => rec.trafficPercent <= step
          /\ RampedTo(rec, exp, rec.trafficPercent)
          /\ resp[p][1].status = 200

\* A ramp from 37, which is not on the schedule, to 50.
C11_Witness ==
  /\ RampedBy("r1")
  /\ experiment["r1"][1].trafficPercent = 37
  /\ kvExp["e1"][1].trafficPercent = 50

\* The request p has completed an evaluation of an active flag at
\* trafficPercent 100 that saw a probability above the threshold and
\* incremented the counter to 3 or more.
QualifiedAtFull(p) ==
  /\ pc[p] = "done"
  /\ resp[p][1].status = 200
  /\ experiment[p] # None
  /\ experiment[p][1].status = "active"
  /\ experiment[p][1].type = Some("flag")
  /\ experiment[p][1].trafficPercent = 100
  /\ Len(probabilities[p]) >= 2
  /\ probabilities[p][2][1] > FLAG_RAMP_THRESHOLD
  /\ before[p].ctr # None
  /\ JsNumber(before[p].ctr[1]) + 1 >= FLAG_CONSECUTIVE_REQUIRED

\* C12: for a flag at trafficPercent 100, a qualifying evaluation whose
\* incremented counter is 3 or more puts the incremented counter and nothing
\* else: the record is not put, the counter is not reset, and the response
\* carries the record as it was read.
C12_FullTrafficOnlyCounts ==
  \A p \in Requests :
    QualifiedAtFull(p) =>
      /\ putCalls[p] = <<PutOfCounter(expId[p], JsString(JsNumber(before[p].ctr[1]) + 1))>>
      /\ kvCtr[expId[p]] = Some(JsString(JsNumber(before[p].ctr[1]) + 1))
      /\ kvExp[expId[p]] = before[p].exp
      /\ finalExp[p] = experiment[p]

C12_Witness ==
  /\ QualifiedAtFull("r1")
  /\ kvCtr["e1"] = Some(JsString(4))
  /\ kvExp["e1"][1].trafficPercent = 100

\* bucket was called in flag mode, or in experiment mode.
FlagCall == bucketCall # None /\ bucketCall[1].type = Some("flag")

ExperimentCall == bucketCall # None /\ bucketCall[1].type # Some("flag")

\* C13: in flag mode a visitor who gets 1 at a trafficPercent gets 1 at every
\* greater one; at 100 every visitor gets 1 and at 0 every visitor gets 0.
C13_FlagBucketRampStable ==
  FlagCall =>
    LET call == bucketCall[1]
    IN  /\ bucketResult[1].worker = 1 =>
              \A p2 \in TrafficPercents :
                p2 > call.trafficPercent =>
                  bucket(call.visitorId, CharCodes(call.experimentId),
                         call.variantCount, p2, Some("flag")) = 1
        /\ call.trafficPercent = 100 => bucketResult[1].worker = 1
        /\ call.trafficPercent = 0 => bucketResult[1].worker = 0

\* The visitor whose hash with "e1" is 0.0999 is on at trafficPercent 10.
C13_Witness ==
  /\ FlagCall
  /\ bucketCall[1].visitorId = <<118, 51, 54, 48, 57, 56>>
  /\ bucketCall[1].experimentId = "e1"
  /\ bucketCall[1].trafficPercent = 10
  /\ bucketResult[1].worker = 1

\* C15: in experiment mode the result is -1 exactly when the hash value is at
\* least trafficPercent / 100: always at trafficPercent 0, never at 100,
\* whatever the number of variants.
C15_ExcludedExactlyAtOrAboveTraffic ==
  ExperimentCall =>
    LET call == bucketCall[1]
        result == bucketResult[1]
    IN  /\ result.worker = -1 <=>
              result.hash * 100 >= call.trafficPercent * 10000
        /\ call.trafficPercent = 0 => result.worker = -1
        /\ call.trafficPercent = 100 => result.worker # -1

\* The visitor whose hash with "e1" is 0.1000 is excluded at trafficPercent 10.
C15_Witness ==
  /\ ExperimentCall
  /\ bucketCall[1].visitorId = <<118, 51, 52, 53, 51>>
  /\ bucketCall[1].experimentId = "e1"
  /\ bucketCall[1].trafficPercent = 10
  /\ bucketResult[1].hash = 1000
  /\ bucketResult[1].worker = -1

\* C16: bucket returns an integer of -1 .. variantCount - 1 in experiment mode
\* and 0 or 1 in flag mode.
C16_BucketRange ==
  /\ ExperimentCall =>
       bucketResult[1].worker \in (-1)..(bucketCall[1].variantCount - 1)
  /\ FlagCall => bucketResult[1].worker \in {0, 1}

\* The visitor whose hash with "e1" is 0.0750, at trafficPercent 10 with 4
\* variants: the exact quotient is 3, the double falls below it.
C16_Witness ==
  /\ ExperimentCall
  /\ bucketCall[1].visitorId = <<118, 49, 52, 52, 54, 54>>
  /\ bucketCall[1].experimentId = "e1"
  /\ bucketCall[1].trafficPercent = 10
  /\ bucketCall[1].variantCount = 4
  /\ bucketResult[1].hash = 750
  /\ bucketResult[1].worker = 2

\* C17: experiment mode is not ramp-stable: the visitor "v380", whose hash
\* with "e1" is 0.0600, is assigned variant 1 of 2 at trafficPercent 10 and
\* variant 0 at trafficPercent 25.
C17_ExperimentBucketNotRampStable ==
  (/\ ExperimentCall
   /\ bucketCall[1].visitorId = <<118, 51, 56, 48>>
   /\ bucketCall[1].experimentId = "e1"
   /\ bucketCall[1].variantCount = 2)
  => /\ bucketResult[1].hash = 600
     /\ bucketCall[1].trafficPercent = 10 => bucketResult[1].worker = 1
     /\ bucketCall[1].trafficPercent = 25 => bucketResult[1].worker = 0
     /\ bucket(bucketCall[1].visitorId, CharCodes("e1"), 2, 10, None) = 1
     /\ bucket(bucketCall[1].visitorId, CharCodes("e1"), 2, 25, None) = 0

C17_Witness ==
  /\ ExperimentCall
  /\ bucketCall[1].visitorId = <<118, 51, 56, 48>>
  /\ bucketCall[1].experimentId = "e1"
  /\ bucketCall[1].variantCount = 2
  /\ bucketCall[1].trafficPercent = 25
  /\ bucketResult[1].worker = 0
  /\ bucket(bucketCall[1].visitorId, CharCodes("e1"), 2, 10, None) = 1

RECURSIVE ByteXorFrom(_, _, _)
\* The exclusive or of the bits i .. 15 of a and b.
ByteXorFrom(a, b, i) ==
  IF i = 16 THEN 0
  ELSE (((a \div (2 ^ i)) + (b \div (2 ^ i))) % 2) * (2 ^ i) + ByteXorFrom(a, b, i + 1)

\* The accumulator, as its four bytes from the lowest on, times
\* 0x01000193 = 2^24 + 403, modulo 2^32.
TimesPrime(acc) ==
  LET p1 == acc[1] * 403
      p2 == acc[2] * 403 + p1 \div 256
      p3 == acc[3] * 403 + p2 \div 256
      p4 == acc[4] * 403 + p3 \div 256 + acc[1]
  IN  <<p1 % 256, p2 % 256, p3 % 256, p4 % 256>>

RECURSIVE AccumulatorFrom(_, _, _)
\* The FNV-1a accumulator after the characters i .. Len(str) of str: for each
\* character, xor its code into the two low bytes, then multiply.
AccumulatorFrom(str, i, acc) ==
  IF i > Len(str) THEN acc
  ELSE LET low == ByteXorFrom(acc[2] * 256 + acc[1], str[i], 0)
       IN  AccumulatorFrom(str, i + 1,
                           TimesPrime(<<low % 256, low \div 256, acc[3], acc[4]>>))

\* The accumulator of str from the start 0x811c9dc5.
Accumulator(str) == AccumulatorFrom(str, 1, <<197, 157, 28, 129>>)

\* The accumulator as an unsigned integer, modulo 10000.
Reduced(acc) ==
  (((((acc[4] * 256 + acc[3]) % 10000) * 256 + acc[2]) % 10000) * 256 + acc[1]) % 10000

\* C18: fnv1a(s) is k / 10000 with k in 0..9999 the unsigned 32-bit FNV-1a
\* accumulator of s modulo 10000; for the empty string that is 0x811c9dc5
\* modulo 10000 = 6261.
C18_Fnv1aIsReducedAccumulator ==
  /\ bucketCall # None =>
       LET str == bucketCall[1].visitorId \o CharCodes(bucketCall[1].experimentId)
       IN  /\ bucketResult[1].hash \in 0..9999
           /\ bucketResult[1].hash = Reduced(Accumulator(str))
  /\ fnv1a(<<>>) = 6261

\* The hash of the one character of code 0xffff.
C18_Witness ==
  /\ bucketCall # None
  /\ bucketCall[1].visitorId = <<65535>>
  /\ bucketCall[1].experimentId = ""
  /\ bucketResult[1].hash = Reduced(Accumulator(<<65535>>))

\* C19: the SDK's fnv1a and bucket return what the worker's return, for every
\* visitor id, experiment id, variant count, trafficPercent and type.
C19_SdkAndWorkerAgree ==
  bucketCall # None =>
    /\ bucketResult[1].sdkHash = bucketResult[1].hash
    /\ bucketResult[1].sdk = bucketResult[1].worker

\* The visitor whose hash with "e1" is 0.1500, at trafficPercent 75 with 5
\* variants: both copies round 0.15 / 0.75 * 5 down to 0.
C19_Witness ==
  /\ bucketCall # None
  /\ bucketCall[1].visitorId = <<118, 54, 54, 55>>
  /\ bucketCall[1].experimentId = "e1"
  /\ bucketCall[1].type = Some("experiment")
  /\ bucketCall[1].variantCount = 4
  /\ bucketCall[1].trafficPercent = 75
  /\ bucketResult[1].sdkHash = 1500
  /\ bucketResult[1].sdk = bucketResult[1].worker
  /\ bucketResult[1].sdk = 0

\* The latest /init response has an entry for the record at id, which it read
\* as an active flag.
InitReadActiveFlag(r, id) ==
  /\ r # None
  /\ id \in DOMAIN r[1].read
  /\ r[1].read[id] # None
  /\ r[1].read[id][1].type = Some("flag")
  /\ r[1].read[id][1].status = "active"

\* 1 if hash < trafficPercent / 100, else 0
FlagModeResult(visitor, exp) ==
  IF fnv1a(visitor \o CharCodes(exp.id)) * 100 < exp.trafficPercent * 10000 THEN 1 ELSE 0

\* C14: for a record of type flag, /init serves and /track records the
\* flag-mode result, and a visitor served 1 is served 1 by every later /init
\* that reads the flag at the same or a higher trafficPercent.
C14_FlagModeOnAssignmentPath ==
  /\ \A id \in StoredIds :
       InitReadActiveFlag(initResp, id) =>
         /\ id \in DOMAIN initResp[1].assignments
         /\ initResp[1].assignments[id] =
              FlagModeResult(initResp[1].visitorId, initResp[1].read[id][1])
  /\ (/\ tracked # None
      /\ tracked[1].read # None
      /\ tracked[1].read[1].type = Some("flag"))
     => tracked[1].variantIndex = FlagModeResult(tracked[1].visitorId[1], tracked[1].read[1])
  /\ \A id \in StoredIds :
       (/\ InitReadActiveFlag(prevInit, id)
        /\ InitReadActiveFlag(initResp, id)
        /\ prevInit[1].visitorId = initResp[1].visitorId
        /\ prevInit[1].read[id][1].trafficPercent <= initResp[1].read[id][1].trafficPercent
        /\ id \in DOMAIN prevInit[1].assignments
        /\ prevInit[1].assignments[id] = 1)
       => /\ id \in DOMAIN initResp[1].assignments
          /\ initResp[1].assignments[id] = 1

\* Both /init responses r1 and r2 are for the visitor and read a record at id,
\* with the same variants and trafficPercent.
SameRecordRead(r1, r2, id) ==
  /\ r1 # None
  /\ r2 # None
  /\ r1[1].visitorId = r2[1].visitorId
  /\ id \in DOMAIN r1[1].read
  /\ id \in DOMAIN r2[1].read
  /\ r1[1].read[id] # None
  /\ r2[1].read[id] # None
  /\ r1[1].read[id][1].variants = r2[1].read[id][1].variants
  /\ r1[1].read[id][1].trafficPercent = r2[1].read[id][1].trafficPercent

\* The assignment of a response at id: None when it has none.
AssignmentAt(r, id) ==
  IF id \in DOMAIN r[1].assignments THEN Some(r[1].assignments[id]) ELSE None

\* The latest event /track wrote is of the visitor and the experiment id of
\* the latest /init response, from a record with the variants and the
\* trafficPercent that /init read.
TrackedAsInit(id) ==
  /\ tracked # None
  /\ tracked[1].read # None
  /\ tracked[1].experimentId = Some(id)
  /\ initResp # None
  /\ tracked[1].visitorId = Some(initResp[1].visitorId)
  /\ id \in DOMAIN initResp[1].read
  /\ initResp[1].read[id] # None
  /\ initResp[1].read[id][1].variants = tracked[1].read[1].variants
  /\ initResp[1].read[id][1].trafficPercent = tracked[1].read[1].trafficPercent

InitAnswered == initResp' # initResp \/ prevInit' # prevInit

\* The id is in the stored index.
Indexed(id) == \E i \in DOMAIN kvIndex : kvIndex[i] = id

\* The visitor's hash with the record's id is below trafficPercent / 100.
InTraffic(visitor, exp) ==
  fnv1a(visitor \o CharCodes(exp.id)) * 100 < exp.trafficPercent * HashResolution

\* C21: the assignments of an /init response have an entry for an id exactly
\* when the id is in the index, the record stored at it is active and the
\* visitor is within its traffic; so none for a paused or a completed record.
C21_AssignedExactlyIndexedActiveIncluded ==
  [][InitAnswered =>
       \A id \in StoredIds :
         id \in DOMAIN initResp'[1].assignments <=>
           /\ Indexed(id)
           /\ kvExp[id] # None
           /\ kvExp[id][1].status = "active"
           /\ InTraffic(initResp'[1].visitorId, kvExp[id][1])]_vars

\* An /init response assigned e1 to the visitor; auto-stop then completed the
\* record with a winner, and the next /init response assigns nothing.
C21_Witness ==
  /\ prevInit # None
  /\ initResp # None
  /\ "e1" \in DOMAIN prevInit[1].assignments
  /\ initResp[1].visitorId = prevInit[1].visitorId
  /\ "e1" \in DOMAIN initResp[1].read
  /\ initResp[1].read["e1"] # None
  /\ initResp[1].read["e1"][1].status = "completed"
  /\ initResp[1].read["e1"][1].winner # None
  /\ initResp[1].read["e1"] = kvExp["e1"]
  /\ DOMAIN initResp[1].assignments = {}

\* The step is the answer of a /track request.
TrackAnswered == tracked' # tracked \/ trackResp' # trackResp

\* The step changes what the store holds under an experiment or a counter key.
StoreChanged == kvExp' # kvExp \/ kvCtr' # kvCtr

\* C22: the record and the counter of an experiment are changed only by a
\* step of a results evaluation or of the administrative API: never by the
\* answer of an /init or a /track request.
C22_OnlyEvaluatorsAndAdminWrite ==
  [][/\ (InitAnswered \/ TrackAnswered) => ~StoreChanged
     /\ StoreChanged => (pc' # pc \/ adminPc' # adminPc)]_vars

\* /init and /track have answered for the visitor, /track has written an
\* event, and the record is as the run began with it.
C22_Witness ==
  /\ initResp # None
  /\ prevInit # None
  /\ tracked # None
  /\ trackResp = 204
  /\ kvExp["e1"] \in {Some(rec) : rec \in ServeRecords}
  /\ kvCtr["e1"] = None
  /\ adminPc = "idle"

\* The administrative handler has answered 400.
UpdateRejected == adminPc = "done" /\ adminResp = 400

\* C23: no step changes the variants, the id or the createdAt of a stored
\* record, and an update with a variants field is answered 400 from any store.
C23_VariantsIdCreatedAtImmutable ==
  [][/\ \A id \in StoredIds :
          (kvExp[id] # None /\ kvExp'[id] # None) =>
            /\ kvExp'[id][1].variants = kvExp[id][1].variants
            /\ kvExp'[id][1].id = kvExp[id][1].id
            /\ kvExp'[id][1].createdAt = kvExp[id][1].createdAt
     /\ (admin' # admin /\ UpdateRejected') => UNCHANGED kvExp
     /\ \A id \in StoredIds, body \in UpdateBodies :
          (kvExp[id] # None /\ body.variants # None) =>
            UpdateRejection(kvExp[id], body) = 400]_vars

\* The three-variant experiment was updated and stopped, an update was then
\* refused, and its variants are the three it was created with.
C23_Witness ==
  /\ kvExp["e1"] # None
  /\ kvExp["e1"][1].variants = VariantNames3
  /\ kvExp["e1"][1].status = "completed"
  /\ kvExp["e1"][1].winner # None
  /\ kvExp["e1"][1].trafficPercent = 0
  /\ UpdateRejected
  /\ adminId = "e1"

\* A trafficPercent field that is not a number of 0..100.
OutOfRange(tp) == tp # None /\ (~tp[1].isNumber \/ tp[1].val < 0 \/ tp[1].val > 100)

\* C24: every stored record has trafficPercent in 0..100, and an update or a
\* creation whose trafficPercent is out of the range or not a number is
\* answered 400 before any put.
C24_TrafficPercentInRange ==
  /\ \A id \in StoredIds :
       kvExp[id] # None => kvExp[id][1].trafficPercent \in 0..100
  /\ \A id \in StoredIds, body \in UpdateBodies :
       (kvExp[id] # None /\ OutOfRange(body.trafficPercent)) =>
         UpdateRejection(kvExp[id], body) = 400
  /\ \A body \in CreateBodies :
       (kvExp["e2"] = None /\ OutOfRange(body.trafficPercent)) =>
         CreateRejection(body) = 400

\* The flag was ramped to 25, a record was created at trafficPercent 0, and
\* an update of it was refused.
C24_Witness ==
  /\ kvExp["e1"] # None
  /\ kvExp["e1"][1].type = Some("flag")
  /\ kvExp["e1"][1].trafficPercent = 25
  /\ kvExp["e2"] # None
  /\ kvExp["e2"][1].trafficPercent = 0
  /\ kvExp["e2"][1].createdAt = kvExp["e2"][1].updatedAt
  /\ UpdateRejected
  /\ adminId = "e2"

\* C25: multiVariantProbabilities returns an array as long as its input;
\* index 0 is null; every other index i holds a probability, from a call of
\* bayesianProbability with the counts of variants[0] and of variants[i]; []
\* gives [] and one variant gives [null].
C25_AlignedAgainstControlOnly ==
  statsCall # None =>
    LET variants == statsCall[1]
        result == statsResult[1]
    IN  /\ Len(result.probabilities) = Len(variants)
        /\ variants = <<>> => result.probabilities = <<>>
        /\ Len(variants) = 1 => result.probabilities = <<None>>
        /\ Len(variants) >= 1 => result.probabilities[1] = None
        /\ \A i \in 2..Len(variants) :
             /\ result.probabilities[i] # None
             /\ result.probabilities[i][1] \in 0..SAMPLES
             /\ result.arguments[i] =
                  Some([controlConversions |-> variants[1].conversions,
                        controlTotal |-> variants[1].total,
                        treatmentConversions |-> variants[i].conversions,
                        treatmentTotal |-> variants[i].total])

\* Three variants with different counts: the estimate at the last index is
\* of the first and the last.
C25_Witness ==
  /\ statsCall # None
  /\ Len(statsCall[1]) = 3
  /\ statsCall[1][1] = [conversions |-> 2, total |-> 5]
  /\ statsCall[1][2] = [conversions |-> 7, total |-> 5]
  /\ statsCall[1][3] = [conversions |-> 2, total |-> -1]
  /\ statsResult[1].probabilities = <<None, Some(3334), Some(3334)>>
  /\ statsResult[1].arguments[3][1].controlConversions = 2
  /\ statsResult[1].arguments[3][1].treatmentTotal = -1

\* C26: every probability bayesianProbability returns is wins / 10000 with
\* wins among 0..10000.
C26_ProbabilityWithinUnitInterval ==
  statsCall # None =>
    \A i \in 2..Len(statsCall[1]) :
      /\ statsResult[1].probabilities[i][1] >= 0
      /\ statsResult[1].probabilities[i][1] <= SAMPLES

\* Every paired draw has b > a: the probability is 10000 / 10000.
C26_Witness ==
  /\ statsCall # None
  /\ Len(statsCall[1]) = 2
  /\ statsResult[1].probabilities[2] = Some(SAMPLES)

\* C27: whatever the counts, each arm is sampled from Beta(c + 1, t - c + 1)
\* with 0 <= c <= t, the counts clamped; so with parameters of at least 1.
C27_BetaParametersAtLeastOne ==
  statsCall # None =>
    \A i \in 2..Len(statsCall[1]) :
      LET parameters == statsResult[1].parameters[i][1]
          arguments == statsResult[1].arguments[i][1]
          InRange(arm, conversions, total) ==
            /\ arm.alpha >= 1
            /\ arm.beta >= 1
            /\ \E t \in 0..Max(0, total) : \E c \in 0..t :
                 /\ arm.alpha = c + 1
                 /\ arm.beta = t - c + 1
                 /\ t = (IF total < 0 THEN 0 ELSE total)
                 /\ c = (IF conversions < 0 \/ total < 0 THEN 0
                         ELSE IF conversions > total THEN total ELSE conversions)
      IN  /\ InRange(parameters.control, arguments.controlConversions,
                     arguments.controlTotal)
          /\ InRange(parameters.treatment, arguments.treatmentConversions,
                     arguments.treatmentTotal)

\* A control with conversions above its total and a treatment with a total
\* below 0: sampled from Beta(6, 1) and Beta(1, 1).
C27_Witness ==
  /\ statsCall # None
  /\ Len(statsCall[1]) = 2
  /\ statsCall[1][1] = [conversions |-> 7, total |-> 5]
  /\ statsCall[1][2] = [conversions |-> 2, total |-> -1]
  /\ statsResult[1].parameters[2][1].control = [alpha |-> 6, beta |-> 1]
  /\ statsResult[1].parameters[2][1].treatment = [alpha |-> 1, beta |-> 1]

\* The request p has answered 200.
Answered(p) == pc[p] = "done" /\ resp[p] # None /\ resp[p][1].status = 200

\* C28: an evaluation that finds no record answers 200 with the statistics of
\* every variant that has rows, named `variant <key>`, puts nothing and
\* carries no status, winner or completedAt; one that reads an active record
\* and puts nothing carries the status "active".
C28_AbsentRecordDistinguished ==
  \A p \in Requests :
    Answered(p) =>
      /\ experiment[p] = None =>
           /\ resp[p][1].expStatus = None
           /\ resp[p][1].winner = None
           /\ resp[p][1].completedAt = None
           /\ putCalls[p] = <<>>
           /\ before[p].exp = None
           /\ Len(resp[p][1].variants) = Cardinality(DOMAIN stats[p])
           /\ \A i \in 1..Len(resp[p][1].variants) :
                LET v == resp[p][1].variants[i]
                IN  /\ v.index \in DOMAIN stats[p]
                    /\ v.name = FallbackName(v.index)
                    /\ v.impressions = stats[p][v.index].impressions
                    /\ v.conversions = stats[p][v.index].conversions
      /\ (/\ experiment[p] # None
          /\ experiment[p][1].status = "active"
          /\ putCalls[p] = <<>>)
         => resp[p][1].expStatus = Some("active")

\* An evaluation of e2, which is not stored, has answered with two variants.
C28_Witness ==
  /\ Answered("r1")
  /\ expId["r1"] = "e2"
  /\ experiment["r1"] = None
  /\ Len(resp["r1"][1].variants) = 2
  /\ resp["r1"][1].variants[2].name = "variant 1"
  /\ resp["r1"][1].variants[2].probability # None
  /\ resp["r1"][1].expStatus = None

\* C29: getVariant(id) returns -1 whenever the SDK's status is not ready
\* (pending, excluded or error, also after a failed init that follows a
\* successful one, and after reset), and when the status is ready it returns
\* the assignment received for id, or -1 if none was received for id.
C29_GetVariantOnlyWhenReady ==
  variantCall # None =>
    LET call == variantCall[1] IN
      IF call.status # "ready"
        THEN call.result = -1
        ELSE call.result = IF call.id \in DOMAIN call.received
                             THEN call.received[call.id]
                             ELSE -1

\* getVariant("e1") answered -1 in status error while the assignments of an
\* earlier successful init, e1 among them, are still held.
C29_Witness ==
  /\ variantCall # None
  /\ variantCall[1].id = "e1"
  /\ variantCall[1].status = "error"
  /\ variantCall[1].result = -1
  /\ "e1" \in DOMAIN variantCall[1].received
  /\ sdkStatus = "error"
  /\ "e1" \in DOMAIN sdkAssignments

\* C30: after reset(), whatever calls of init (with or without autoRevenue)
\* came before, the status is pending, getVariant returns -1 and
\* window.dataLayer.push is the function it was before the SDK first wrapped
\* it, so that a later purchase passes no interceptor of the SDK.
C30_ResetRestoresOriginalPush ==
  [][Reset => /\ sdkStatus' = "pending"
              /\ \A experimentId \in SdkIds : GetVariant(experimentId)' = -1
              /\ dataLayerPush' = 0]_vars

\* C31: within one UTC day every call of getSalt returns the same salt, in
\* every isolate, also when calls run concurrently while the day's salt is
\* not stored yet.
C31_OneSaltPerDay == \A d \in Days : Cardinality(returnedOn[d]) <= 1

\* C39: when no POST or DELETE is under way, experiments:index lists exactly
\* the ids that have a stored record.
C39_IndexListsExactlyStored ==
  (\A a \in AdminRequests : crudPc[a] = "idle") =>
    \A id \in StoredIds : kvExp[id] # None <=> Indexed(id)

\* C38: when the aggregation has data for fewer than two variants, so that
\* there is no probability for index 1, the ramp evaluation of an active flag
\* makes no store write: the request ends without a put.
C38_NoWriteWithoutOnProbability ==
  \A p \in Requests :
    (/\ pc[p] = "done"
     /\ Evaluator(experiment[p]) = "ramp"
     /\ Len(probabilities[p]) < 2) => putCalls[p] = <<>>

\* C37: every impression or conversion data point /track writes carries a
\* variant index of the record it read, 0..variants.length-1: no data point is
\* written with the index -1 of an excluded visitor.
C37_TrackedVariantIsReal ==
  (tracked # None /\ tracked[1].read # None) =>
    tracked[1].variantIndex \in 0..(Len(tracked[1].read[1].variants) - 1)

\* C36: whatever variant keys the aggregation rows contain, every winner
\* auto-stop persists is a name of the record's variants list, and when control
\* wins (the deciding probability is below 0.01) the winner persisted is the
\* record's variant 0.
C36_ControlIsVariantZero ==
  \A p \in Requests :
    (StoppedBy(p) /\ Deciding(p) # {}) =>
      LET names == experiment[p][1].variants
          won == putCalls[p][1].exp[1].winner
          m == CHOOSE i \in Deciding(p) : \A j \in Deciding(p) : i <= j
      IN  /\ won \in {Some(names[k]) : k \in 1..Len(names)}
          /\ probabilities[p][m][1] < StopLoseThreshold => won = Some(names[1])

\* C33: under any interleaving of concurrent evaluations of an active flag,
\* with no administrative edit, no put replaces a stored trafficPercent with a
\* smaller one.
C33_TrafficPercentNeverDecreases ==
  [][\A id \in StoredIds :
       (kvExp[id] # None /\ kvExp'[id] # None) =>
         kvExp'[id][1].trafficPercent >= kvExp[id][1].trafficPercent]_vars

\* C34: under any interleaving of concurrent evaluations of a flag, every
\* increase of the stored trafficPercent is preceded by at least 3 evaluations
\* that observed a probability > 0.95 and started after the previous increase.
C34_IncreaseAfterThreeHits ==
  [][Increases(kvExp["e1"], kvExp'["e1"]) =>
       hitsSince >= FLAG_CONSECUTIVE_REQUIRED]_vars

\* C35: once auto-stop has persisted a completed record, with no
\* administrative edit no later put changes the stored winner or completedAt.
C35_FirstDecisionIsFinal ==
  [][\A id \in StoredIds :
       (/\ kvExp[id] # None
        /\ kvExp[id][1].status = "completed"
        /\ kvExp'[id] # None) =>
         /\ kvExp'[id][1].winner = kvExp[id][1].winner
         /\ kvExp'[id][1].completedAt = kvExp[id][1].completedAt]_vars

\* C40: when an active flag at trafficPercent 10 with counter 0 is evaluated
\* sequentially, every evaluation observing a probability > 0.95 and every put
\* taking effect, trafficPercent eventually reaches 100; the record is written
\* at evaluations 3, 6, 9 and 12, to 25, 50, 75 and 100, and at no other.
C40_LadderToHundred ==
  /\ <>(kvExp["e1"] # None /\ kvExp["e1"][1].trafficPercent = 100)
  /\ [][kvExp'["e1"] # kvExp["e1"] =>
          /\ evaluations + 1 \in {3, 6, 9, 12}
          /\ kvExp'["e1"] # None
          /\ kvExp'["e1"][1].trafficPercent = RAMP_SCHEDULE[((evaluations + 1) \div 3) + 1]]_vars
  /\ [](\A k \in 1..4 :
          evaluations >= 3 * k => kvExp["e1"][1].trafficPercent >= RAMP_SCHEDULE[k + 1])

\* Twelve evaluations have returned and a thirteenth has gone through without
\* a write of the record, which is at 100.
C40_Witness ==
  /\ evaluations = 13
  /\ kvExp["e1"][1].trafficPercent = 100
  /\ kvCtr["e1"] = Some(JsString(1))
  /\ pc["r1"] = "done"

====
